---------------------------- MODULE Spec2Model ----------------------------
(***************************************************************************)
(* A model of the interactive-maps-platform data-join and interaction      *)
(* core:                                                                   *)
(*   - SheetsDataProcessor (media-maps/js/sheets-data-processor.js): the   *)
(*     time-boxed cache around the sheet retrieval and the row transform;  *)
(*   - InteractiveMap (city-maps/js/map-core.js): the statistics index,    *)
(*     the region/overlay layers and the hover/click/toggle handlers.      *)
(*                                                                         *)
(* Strings of the program are sequences of one-character strings, so that  *)
(* split, trim, parseFloat and Number are computed character by character. *)
(* JavaScript values that may be null/undefined are tagged records.        *)
(***************************************************************************)
EXTENDS Integers, Sequences, FiniteSets, TLC

VARIABLES
    \* ---- SheetsDataProcessor and its environment ----
    clock,         \* Date.now(), in milliseconds
    cache,         \* SheetsDataProcessor.cache: [data, timestamp]
    envKey,        \* what EnvLoader.get('GOOGLE_SHEETS_API_KEY') yields once loaded
    calls,         \* one record per fetchAndProcess invocation
    netCalls,      \* number of fetch(sheetsUrl) requests issued so far
    lastOk,        \* history: the last successful retrieval since the last clearCache
    cleared,       \* history: calls that were in flight when clearCache ran
    invalidated,   \* history, kept under SpecRefresh: clearCache ran and
                   \* fetchAndProcess was not called since
    \* ---- processSheetData / loadDistrictStats as functions of a table ----
    tValues,       \* the table handed to the function under study
    tOut,          \* its result once applied
    \* ---- InteractiveMap ----
    showDistrictInfo, \* config.features.showDistrictInfo as merged by the constructor
    districtLayers,\* every district layer created so far: the style of each region
    onMap,         \* the district layers added to the map
    curDistricts,  \* this.layers.districts (0: null)
    transport,     \* this.layers.transportation (0: null)
    transportOnMap,\* the overlay layers added to the map
    state,         \* this.state: [isTransportationVisible, currentDistrict]
    panel,         \* this.controls.districtInfo: [exists, visible, shown]
    statsById,     \* window.statsById
    viewport,      \* the region whose bounds the map was last fitted to (0: none)
    lastError,     \* whether the handler that ran last raised an exception
    hovered,       \* history: features with a pointerEnter and no pointerLeave since
    togglesOdd,    \* history: toggleTransportation was called an odd number of times
    \* ---- InteractiveMap.initializeWithData ----
    boot,          \* the invocation: [pc, cfg, result, statsFailed]
    \* ---- the callers of fetchAndProcess ----
    args,          \* the (sheetId, range) each invocation was given ("": not invoked)
    \* ---- a second InteractiveMap on the same page ----
    peer,          \* [loaded, region, shown]: the index its own loadDistrictStats
                   \* built, the region its panel was last updated for, the content
    \* ---- EnvLoader ----
    envLoader,     \* EnvLoader: [variables, loaded]
    envSource,     \* which EnvLoader the page includes, and window.ENV_CONFIG
    loads,         \* one record per load() invocation
    lastLoad,      \* history: the load that settled last (0: none)
    \* ---- CityMapFactory.createCityMap ----
    factory,       \* the invocation: [pc, options, result]; history: log, the
                   \* invocations of the two loading callbacks in order
    \* ---- MapBase.setupCustomScrollZoom ----
    zoomUi,        \* [zoom, opacity, text, timer, wheels]: map.getZoom(), the
                   \* instruction element's style.opacity and textContent, the
                   \* callback instructionTimeout will run, the wheel events so far
    \* ---- MapUtils.debounce ----
    debounced      \* one debounced function: [wait, now, due, args] (the delay, the
                   \* time, when its timeout is due, the arguments its callback
                   \* holds); history: calls and invoked, each a sequence of [at, args]

cacheVars == <<clock, cache, envKey, calls, netCalls, lastOk, cleared, invalidated>>
tableVars == <<tValues, tOut>>
mapVars   == <<showDistrictInfo, districtLayers, onMap, curDistricts, transport,
               transportOnMap, state, panel, statsById, viewport, lastError, hovered,
               togglesOdd>>
bootVars  == <<boot>>
envVars   == <<envLoader, envSource, loads, lastLoad>>
otherVars == <<args, peer, envVars, factory, zoomUi, debounced>>
vars      == <<cacheVars, tableVars, mapVars, bootVars, otherVars>>

-----------------------------------------------------------------------------
(* JavaScript values *)

JNull      == [t |-> "null"]
JInt(n)    == [t |-> "int", i |-> n]
JObj(o)    == [t |-> "obj", o |-> o]
NaN        == [t |-> "nan"]
Infinity(neg) == [t |-> "inf", neg |-> neg]
Num(m, x)  == [t |-> "num", m |-> m, x |-> x]     \* the number m * 10^x

\* ToBoolean of a tagged value: null, 0 and NaN are falsy, every object is truthy.
Truthy(v) ==
    CASE v.t = "null" -> FALSE
      [] v.t = "int"  -> v.i # 0
      [] v.t = "obj"  -> TRUE
      [] v.t = "nan"  -> FALSE
      [] v.t = "inf"  -> TRUE
      [] v.t = "num"  -> v.m # 0

\* A missing array element (row[i] past the end): undefined. It is not a string.
Undefined == <<"undefined">>

\* ToBoolean of a cell: undefined and "" are falsy, every other string truthy.
TruthyCell(c) == c # Undefined /\ c # <<>>

\* row[i] with JavaScript's 0-based index
At(row, i) == IF i >= 0 /\ i < Len(row) THEN row[i + 1] ELSE Undefined

\* x || ""
OrEmpty(c) == IF TruthyCell(c) THEN c ELSE <<>>

-----------------------------------------------------------------------------
(* Strings *)

Digits == <<"0", "1", "2", "3", "4", "5", "6", "7", "8", "9">>
IsDigit(c) == \E i \in 1..10 : Digits[i] = c
DigitVal(c) == (CHOOSE i \in 1..10 : Digits[i] = c) - 1
IsSpace(c) == c \in {" ", "\t", "\n"}

UpperLetters == <<"A","B","C","D","E","F","G","H","I","J","K","L","M",
                  "N","O","P","Q","R","S","T","U","V","W","X","Y","Z">>
LowerLetters == <<"a","b","c","d","e","f","g","h","i","j","k","l","m",
                  "n","o","p","q","r","s","t","u","v","w","x","y","z">>
LowerChar(c) ==
    IF \E i \in 1..26 : UpperLetters[i] = c
    THEN LowerLetters[CHOOSE i \in 1..26 : UpperLetters[i] = c]
    ELSE c
\* String.prototype.toLowerCase
ToLowerCase(s) == [i \in 1..Len(s) |-> LowerChar(s[i])]

RECURSIVE TrimLeft(_)
TrimLeft(s) == IF s # <<>> /\ IsSpace(Head(s)) THEN TrimLeft(Tail(s)) ELSE s
RECURSIVE TrimRight(_)
TrimRight(s) ==
    IF s # <<>> /\ IsSpace(s[Len(s)]) THEN TrimRight(SubSeq(s, 1, Len(s) - 1)) ELSE s
\* String.prototype.trim
Trim(s) == TrimRight(TrimLeft(s))

\* String.prototype.split(","): "" gives [""], "a," gives ["a", ""]
RECURSIVE SplitFrom(_, _)
SplitFrom(s, cur) ==
    IF s = <<>> THEN <<cur>>
    ELSE IF Head(s) = "," THEN <<cur>> \o SplitFrom(Tail(s), <<>>)
    ELSE SplitFrom(Tail(s), Append(cur, Head(s)))
SplitComma(s) == SplitFrom(s, <<>>)

\* s.startsWith(p)
StartsWith(s, p) == Len(s) >= Len(p) /\ SubSeq(s, 1, Len(p)) = p

RECURSIVE DigitPrefixLen(_)
DigitPrefixLen(s) ==
    IF s # <<>> /\ IsDigit(Head(s)) THEN 1 + DigitPrefixLen(Tail(s)) ELSE 0
RECURSIVE DigitsValue(_)
DigitsValue(ds) ==
    IF ds = <<>> THEN 0
    ELSE 10 * DigitsValue(SubSeq(ds, 1, Len(ds) - 1)) + DigitVal(ds[Len(ds)])

RECURSIVE Normalize(_, _)
Normalize(m, x) ==
    IF m = 0 THEN Num(0, 0)
    ELSE IF m % 10 = 0 THEN Normalize(m \div 10, x + 1)
    ELSE Num(m, x)

InfinityWord == <<"I", "n", "f", "i", "n", "i", "t", "y">>
Drop(s, n) == SubSeq(s, n + 1, Len(s))

(***************************************************************************)
(* The longest prefix of s that is a StrDecimalLiteral (ECMAScript         *)
(* 7.1.4.1): [+-] (Infinity | digits [. digits] | . digits) [e [+-] digits]*)
(* Result: [v |-> its value, n |-> the number of characters it consumes],  *)
(* v = NaN and n = 0 when no prefix is one.                                *)
(***************************************************************************)
NoExponent == [n |-> 0, x |-> 0]

\* The exponent part "e[+-]digits" at the head of s, eSign and eDigits being
\* the lengths of its sign and of its digits: n its length, x its value
ExponentDigits(s, eSign, eDigits) ==
    IF eDigits = 0 THEN NoExponent
    ELSE [n |-> 1 + eSign + eDigits,
          x |-> (IF eSign = 1 /\ s[2] = "-" THEN -1 ELSE 1)
                   * DigitsValue(SubSeq(s, 2 + eSign, 1 + eSign + eDigits))]

ExponentSigned(s, eSign) ==
    ExponentDigits(s, eSign, DigitPrefixLen(Drop(s, 1 + eSign)))

ExponentOf(s) ==
    IF s = <<>> \/ Head(s) \notin {"e", "E"} THEN NoExponent
    ELSE ExponentSigned(s, IF Len(s) >= 2 /\ s[2] \in {"+", "-"} THEN 1 ELSE 0)

\* The length of the fraction ".digits" at the head of s after intLen integer
\* digits: "5." and ".5" are literals, "." alone is not; 0 when there is none
DotLen(s, intLen) ==
    IF s # <<>> /\ Head(s) = "." /\ (intLen > 0 \/ DigitPrefixLen(Tail(s)) > 0)
    THEN 1 + DigitPrefixLen(Tail(s))
    ELSE 0

\* The literal with mantissa mant, fracUse fraction digits and exponent exp
ScanValue(neg, n, mant, fracUse, exp) ==
    [v |-> Normalize(IF neg THEN 0 - mant ELSE mant, exp.x - fracUse),
     n |-> n + exp.n]

ScanMantissa(body, neg, signLen, intLen, dotLen) ==
    IF intLen = 0 /\ dotLen = 0
    THEN [v |-> NaN, n |-> 0]
    ELSE ScanValue(neg, signLen + intLen + dotLen,
                   DigitsValue(SubSeq(body, 1, intLen)
                               \o SubSeq(body, intLen + 2, intLen + dotLen)),
                   IF dotLen > 0 THEN dotLen - 1 ELSE 0,
                   ExponentOf(Drop(body, intLen + dotLen)))

ScanInteger(body, neg, signLen, intLen) ==
    ScanMantissa(body, neg, signLen, intLen, DotLen(Drop(body, intLen), intLen))

ScanBody(body, neg, signLen) ==
    IF StartsWith(body, InfinityWord)
    THEN [v |-> Infinity(neg), n |-> signLen + Len(InfinityWord)]
    ELSE ScanInteger(body, neg, signLen, DigitPrefixLen(body))

ScanSigned(s, signLen) ==
    ScanBody(Drop(s, signLen), signLen = 1 /\ Head(s) = "-", signLen)

ScanDecimal(s) ==
    ScanSigned(s, IF s # <<>> /\ Head(s) \in {"+", "-"} THEN 1 ELSE 0)

\* parseFloat(s): leading white space is skipped, trailing text is ignored
ParseFloat(s) == ScanDecimal(TrimLeft(s)).v

\* Number(s) for a string: white space is trimmed, "" is 0, the whole rest
\* must be one numeric literal
ToNumber(s) ==
    LET t == Trim(s)
        r == ScanDecimal(t)
    IN  IF t = <<>> THEN Num(0, 0)
        ELSE IF r.n = Len(t) THEN r.v
        ELSE NaN

\* isNaN / Number.isFinite of a number value
IsNaN(v) == v.t = "nan"
IsFinite(v) == v.t = "num"

-----------------------------------------------------------------------------
(* SheetsDataProcessor.processSheetData *)

SName == <<"N", "a", "m", "e">>
SKoordinaten == <<"K", "o", "o", "r", "d", "i", "n", "a", "t", "e", "n">>
SWerbetraeger == <<"W", "e", "r", "b", "e", "t", "r", "ä", "g", "e", "r">>
SOrt == <<"O", "r", "t">>
SStandort == <<"S", "t", "a", "n", "d", "o", "r", "t">>
SMasse == <<"M", "a", "ß", "e">>
SBeleuchtung == <<"B", "e", "l", "e", "u", "c", "h", "t", "u", "n", "g">>
SBuchungsintervall ==
    <<"B", "u", "c", "h", "u", "n", "g", "s", "i", "n", "t", "e", "r", "v", "a", "l", "l">>
SVorlaufzeit == <<"V", "o", "r", "l", "a", "u", "f", "z", "e", "i", "t">>
SBild1 == <<"B", "i", "l", "d", "1">>
SBild2 == <<"B", "i", "l", "d", "2">>

\* Property names every plain object inherits from Object.prototype: for these
\* data[category] is truthy although the object has no such own key.
SConstructor == <<"c", "o", "n", "s", "t", "r", "u", "c", "t", "o", "r">>
SToString == <<"t", "o", "S", "t", "r", "i", "n", "g">>
SValueOf == <<"v", "a", "l", "u", "e", "O", "f">>
SHasOwnProperty ==
    <<"h", "a", "s", "O", "w", "n", "P", "r", "o", "p", "e", "r", "t", "y">>
SProto == <<"_", "_", "p", "r", "o", "t", "o", "_", "_">>
InheritedKeys == {SConstructor, SToString, SValueOf, SHasOwnProperty, SProto}

\* An exception leaving the function
Throw == [t |-> "throw"]

\* rowData[h] after headers.forEach((header, index) => rowData[header] =
\* row[index] || ""): the last column of that name wins; undefined if none.
RowData(headers, row, h) ==
    IF \E i \in 1..Len(headers) : headers[i] = h
    THEN LET i == CHOOSE j \in 1..Len(headers) :
                      /\ headers[j] = h
                      /\ \A k \in (j + 1)..Len(headers) : headers[k] # h
         IN  OrEmpty(At(row, i - 1))
    ELSE Undefined

VisibleColumns == <<SWerbetraeger, SOrt, SStandort, SMasse, SBeleuchtung,
                    SBuchungsintervall, SVorlaufzeit>>

\* generateInfoSection: the title and one "column: value" line per visible
\* column whose cell is truthy
GenerateInfoSection(headers, row) ==
    [title |-> RowData(headers, row, SName),
     lines |-> SelectSeq([i \in 1..Len(VisibleColumns) |->
                            <<VisibleColumns[i], RowData(headers, row, VisibleColumns[i])>>],
                         LAMBDA p : TruthyCell(p[2]))]

\* generateImagesSection: Bild1 and Bild2 when truthy
GenerateImagesSection(headers, row) ==
    SelectSeq(<<RowData(headers, row, SBild1), RowData(headers, row, SBild2)>>,
              TruthyCell)

\* generatePopup: the popup's content, as its two sections
GeneratePopup(headers, row) ==
    [info   |-> GenerateInfoSection(headers, row),
     images |-> GenerateImagesSection(headers, row)]

\* Lines 152-174: the feature is pushed onto its category's collection. data is
\* the object built so far, as the sequence of its own keys in insertion order.
AddFeature(data, category, feature) ==
    IF \E k \in 1..Len(data) : data[k].key = category
    THEN JObj([k \in 1..Len(data) |->
                 IF data[k].key = category
                 THEN [data[k] EXCEPT !.features = Append(@, feature)]
                 ELSE data[k]])
    ELSE IF category \in InheritedKeys
    \* data[category] is the inherited member: no collection is created and
    \* data[category].features.push(...) raises a TypeError
    THEN Throw
    ELSE JObj(Append(data, [key |-> category, features |-> <<feature>>]))

\* Lines 127-174: the row once its coordinates are parsed
WithCoordinates(headers, row, data, coordParts, category) ==
    IF Len(coordParts) # 2 \/ IsNaN(coordParts[1]) \/ IsNaN(coordParts[2])
    THEN JObj(data)
    ELSE IF ~TruthyCell(category)
    THEN JObj(data)
    ELSE AddFeature(data, category,
                    [Name         |-> RowData(headers, row, SName),
                     popupContent |-> GeneratePopup(headers, row),
                     Category     |-> category,
                     coordinates  |-> coordParts])

\* rowData["Koordinaten"].split(",").map((c) => parseFloat(c.trim()))
CoordParts(tokens) == [i \in 1..Len(tokens) |-> ParseFloat(Trim(tokens[i]))]

\* Lines 116-174: the row once rowData is built
WithRowData(headers, row, data, coordCell) ==
    IF ~TruthyCell(coordCell)
    THEN JObj(data)
    ELSE WithCoordinates(headers, row, data, CoordParts(SplitComma(coordCell)),
                         RowData(headers, row, SWerbetraeger))

\* The body of rows.forEach for one row
ProcessRow(headers, row, data) ==
    IF Len(row) < 9 \/ ~TruthyCell(At(row, 0)) \/ ~TruthyCell(At(row, 9))
    THEN JObj(data)
    ELSE WithRowData(headers, row, data, RowData(headers, row, SKoordinaten))

RECURSIVE ProcessRows(_, _, _)
\* forEach goes on with the rest of the rows unless the callback threw
RestOfRows(headers, rest, r) ==
    IF r.t = "throw" THEN Throw
    ELSE ProcessRows(headers, rest, r.o)

ProcessRows(headers, rows, data) ==
    IF rows = <<>> THEN JObj(data)
    ELSE RestOfRows(headers, Tail(rows), ProcessRow(headers, Head(rows), data))

\* processSheetData(values): values[0] is the header row
ProcessSheetData(values) ==
    IF values = <<>> THEN JObj(<<>>)
    ELSE ProcessRows(values[1], Tail(values), <<>>)

\* The returned object is a plain object (const data = {}): its own keys are
\* enumerated with the array indices first, in ascending numeric order, and the
\* other keys after them in the order of their creation.
\* An array index is the canonical numeral of an integer in 0 .. 2^32 - 2.
MaxArrayIndex == <<"4", "2", "9", "4", "9", "6", "7", "2", "9", "4">>
RECURSIVE DigitsLess(_, _)
DigitsLess(a, b) ==
    IF a = <<>> THEN FALSE
    ELSE IF Head(a) # Head(b) THEN DigitVal(Head(a)) < DigitVal(Head(b))
    ELSE DigitsLess(Tail(a), Tail(b))
NumeralLess(a, b) == Len(a) < Len(b) \/ (Len(a) = Len(b) /\ DigitsLess(a, b))
IsArrayIndex(key) ==
    /\ key # <<>>
    /\ \A i \in 1..Len(key) : IsDigit(key[i])
    /\ Len(key) = 1 \/ key[1] # "0"
    /\ ~NumeralLess(MaxArrayIndex, key)
IndexKeys(data) == {data[k].key : k \in {j \in 1..Len(data) : IsArrayIndex(data[j].key)}}
AscendingKeys(keys) ==
    CHOOSE seq \in [1..Cardinality(keys) -> keys] :
        \A i, j \in 1..Cardinality(keys) :
            i < j => NumeralLess(seq[i], seq[j])
NamedKeys(data) ==
    LET named == SelectSeq(data, LAMBDA entry : ~IsArrayIndex(entry.key))
    IN  [k \in 1..Len(named) |-> named[k].key]
OwnKeys(data) == AscendingKeys(IndexKeys(data)) \o NamedKeys(data)

-----------------------------------------------------------------------------
(* InteractiveMap.loadDistrictStats: the index built from the table *)

SCartodbId == <<"c", "a", "r", "t", "o", "d", "b", "_", "i", "d">>
SNameLc == <<"n", "a", "m", "e">>
SPopulationLc == <<"p", "o", "p", "u", "l", "a", "t", "i", "o", "n">>
SArea == <<"a", "r", "e", "a">>
SAdcountLc == <<"a", "d", "c", "o", "u", "n", "t">>
SNotes == <<"n", "o", "t", "e", "s">>

\* colIndex[k] of Object.fromEntries(headers.map((h, i) => [h.trim()
\* .toLowerCase(), i])): the last column of that name wins; -1 stands for
\* undefined (row[undefined] is undefined, like row[-1])
ColIndex(headers, k) ==
    LET norm(i) == ToLowerCase(Trim(headers[i]))
    IN  IF \E i \in 1..Len(headers) : norm(i) = k
        THEN (CHOOSE j \in 1..Len(headers) :
                 /\ norm(j) = k
                 /\ \A i \in (j + 1)..Len(headers) : norm(i) # k) - 1
        ELSE -1

\* Number(cell || 0)
NumberOrZero(c) == IF TruthyCell(c) THEN ToNumber(c) ELSE Num(0, 0)

\* The object literal assigned to statsById[id]
StatsEntry(headers, row) ==
    [name       |-> At(row, ColIndex(headers, SNameLc)),
     population |-> NumberOrZero(At(row, ColIndex(headers, SPopulationLc))),
     area       |-> NumberOrZero(At(row, ColIndex(headers, SArea))),
     adCount    |-> NumberOrZero(At(row, ColIndex(headers, SAdcountLc))),
     notes      |-> OrEmpty(At(row, ColIndex(headers, SNotes)))]

\* The variant of the loop in which the first row of an identifier wins
RECURSIVE StatsRowsFirstWins(_, _, _)
StatsRowsFirstWins(headers, rows, byId) ==
    IF rows = <<>> THEN byId
    ELSE LET row == Head(rows)
             id  == At(row, ColIndex(headers, SCartodbId))
         IN  IF ~TruthyCell(id) \/ id \in DOMAIN byId
             THEN StatsRowsFirstWins(headers, Tail(rows), byId)
             ELSE StatsRowsFirstWins(headers, Tail(rows),
                    [k \in DOMAIN byId \cup {id} |->
                       IF k = id THEN StatsEntry(headers, row) ELSE byId[k]])

\* The for loop over rows: statsById is a function from its keys to entries
RECURSIVE StatsRows(_, _, _)
StatsRows(headers, rows, byId) ==
    IF rows = <<>> THEN byId
    ELSE LET row == Head(rows)
             id  == At(row, ColIndex(headers, SCartodbId))
         IN  IF ~TruthyCell(id)
             THEN StatsRows(headers, Tail(rows), byId)
             ELSE StatsRows(headers, Tail(rows),
                    [k \in DOMAIN byId \cup {id} |->
                       IF k = id THEN StatsEntry(headers, row) ELSE byId[k]])

\* const [headers, ...rows] = data.values and what follows: with no header
\* row headers is undefined and headers.map raises a TypeError
BuildStatsIndex(values) ==
    IF values = <<>> THEN Throw
    ELSE JObj(StatsRows(values[1], Tail(values), <<>>))

-----------------------------------------------------------------------------
(* SheetsDataProcessor.fetchAndProcess, isCacheValid, clearCache *)

\* cache.duration
CacheDuration == 5 * 60 * 1000

\* The model's clock advances in steps of two and a half minutes (half the
\* cache duration), MaxTicks times at most.
TickMs == 150 * 1000
MaxTicks == 4
\* fetchAndProcess is invoked MaxCalls times at most; invocations may overlap.
MaxCalls == 2
CallIds == 1..MaxCalls

SPlaceholderKey == "your_google_sheets_api_key_here"

\* Sample sheet contents the server may answer with (11 columns, A:K)
WideHeader == <<SName, SWerbetraeger, SOrt, SStandort, SMasse, SBeleuchtung,
                SBuchungsintervall, SVorlaufzeit, SBild1, SKoordinaten, SBild2>>
SheetRow(name, category, coord) ==
    <<name, category, <<>>, <<>>, <<>>, <<>>, <<>>, <<>>, <<>>, coord>>
SheetA == <<WideHeader,
            SheetRow(<<"S", "p", "o", "t", "1">>, <<"M", "e", "g", "a">>,
                     <<"5", "2", ".", "5", ",", "1", "3", ".", "4">>)>>
SheetB == <<WideHeader,
            SheetRow(<<"S", "p", "o", "t", "2">>, <<"M", "e", "g", "a">>,
                     <<"4", "8", ",", "1", "1", ".", "5">>)>>
Sheets == {SheetA, SheetB}
\* this.processSheetData(data.values) of each sample sheet
ProcessedSheet == [values \in Sheets |-> ProcessSheetData(values)]
\* What fetch(sheetsUrl) may settle with: a rejection, a non-success status, or
\* a success whose JSON body has no values, a header only, or a sheet
Responses ==
    {[kind |-> "reject"], [kind |-> "status"]}
    \cup {[kind |-> "ok", values |-> v] :
            v \in {JNull, JObj(<<>>), JObj(<<WideHeader>>)} \cup {JObj(sheet) : sheet \in Sheets}}

NoResult == [t |-> "none"]
Rejected(e) == [t |-> "error", e |-> e]
\* pc: where the invocation stands; result: what its promise settled with; body:
\* the response's values while response.json() is awaited. History, written and
\* never read by the steps: usedNet (it issued a request), wrote (one of its steps
\* changed the cache), netFailed (its request was rejected or answered with a
\* non-success status), age (when it was invoked, the time since the last
\* successful retrieval completed, -1 if there is none since the last
\* clearCache), prior (the data that retrieval returned), hit (it returned
\* without suspending), afterClear (it is the first invocation after a
\* clearCache)
IdleCall == [pc |-> "idle", result |-> NoResult, body |-> JNull,
             usedNet |-> FALSE, wrote |-> FALSE, netFailed |-> FALSE,
             age |-> -1, prior |-> JNull, hit |-> FALSE, afterClear |-> FALSE]
NoLastOk == [set |-> FALSE, data |-> JNull, at |-> 0, by |-> 0]

InitCache ==
    /\ clock = 0
    /\ cache = [data |-> JNull, timestamp |-> JNull]
    /\ envKey \in {"", SPlaceholderKey, "key"}
    /\ calls = [c \in CallIds |-> IdleCall]
    /\ netCalls = 0
    /\ lastOk = NoLastOk
    /\ cleared = {}
    /\ invalidated = FALSE

\* isCacheValid()
IsCacheValid ==
    /\ Truthy(cache.data)
    /\ Truthy(cache.timestamp)
    /\ clock - cache.timestamp.i < CacheDuration

\* EnvLoader.buildSheetsUrl(sheetId, range) is not null
HasSheetsUrl == envKey # "" /\ envKey # SPlaceholderKey

\* Every step of call c records whether it changed the cache (history).
StepCall(c, rec) ==
    calls' = [calls EXCEPT ![c] = [rec EXCEPT !.wrote = @ \/ cache' # cache]]

\* The stale-if-error variant of the catch block: a failed refresh answers with
\* the entry still held by the cache.
RejectStale(c, e) ==
    /\ cache' = cache
    /\ StepCall(c, [calls[c] EXCEPT
                      !.pc = "done",
                      !.result = IF Truthy(cache.data) THEN cache.data ELSE Rejected(e),
                      !.netFailed = e \in {"reject", "status"}])
    /\ UNCHANGED lastOk

\* catch (error) { console.error(...); throw error; }
Reject(c, e) ==
    /\ cache' = cache
    /\ StepCall(c, [calls[c] EXCEPT !.pc = "done", !.result = Rejected(e),
                                    !.netFailed = e \in {"reject", "status"}])
    /\ UNCHANGED lastOk

\* The variant of lines 57-65 that leaves a still valid entry in place: of two
\* overlapping retrievals the first to complete wins
StoreUnlessValid(c, processedData) ==
    IF processedData.t = "throw"
    THEN Reject(c, "process")
    ELSE /\ cache' = IF IsCacheValid THEN cache
                     ELSE [data |-> processedData, timestamp |-> JInt(clock)]
         /\ StepCall(c, [calls[c] EXCEPT !.pc = "done", !.result = processedData])
         /\ lastOk' = [set |-> TRUE, data |-> processedData, at |-> clock, by |-> c]

\* Lines 57-65: process, update the cache, return the processed data
StoreProcessed(c, processedData) ==
    IF processedData.t = "throw"
    THEN Reject(c, "process")
    ELSE /\ cache' = [data |-> processedData, timestamp |-> JInt(clock)]
         /\ StepCall(c, [calls[c] EXCEPT !.pc = "done", !.result = processedData])
         /\ lastOk' = [set |-> TRUE, data |-> processedData, at |-> clock, by |-> c]

Store(c, values) == StoreProcessed(c, ProcessedSheet[values])

\* fetchAndProcess is called: the cache check, up to the first await
FetchStart(c) ==
    /\ calls[c].pc = "idle"
    /\ IF c = 1 THEN TRUE ELSE calls[c - 1].pc # "idle"
    /\ LET rec == [calls[c] EXCEPT
                     !.age = IF lastOk.set THEN clock - lastOk.at ELSE -1,
                     !.prior = lastOk.data,
                     !.afterClear = invalidated]
       IN  /\ cache' = cache
           /\ IF IsCacheValid
              THEN StepCall(c, [rec EXCEPT !.pc = "done", !.result = cache.data,
                                          !.hit = TRUE])
              ELSE StepCall(c, [rec EXCEPT !.pc = "env"])
    /\ invalidated' = FALSE
    /\ UNCHANGED <<clock, envKey, netCalls, lastOk, cleared>>

\* await EnvLoader.load() resumes: build the URL and issue the request
EnvLoaded(c) ==
    /\ calls[c].pc = "env"
    /\ IF HasSheetsUrl
       THEN /\ cache' = cache
            /\ StepCall(c, [calls[c] EXCEPT !.pc = "net", !.usedNet = TRUE])
            /\ netCalls' = netCalls + 1
            /\ UNCHANGED lastOk
       ELSE /\ Reject(c, "nokey")
            /\ UNCHANGED netCalls
    /\ UNCHANGED <<clock, envKey, cleared, invalidated>>

\* await fetch(sheetsUrl) settles
FetchSettled(c) ==
    /\ calls[c].pc = "net"
    /\ \E r \in Responses :
         IF r.kind = "ok"
         THEN /\ cache' = cache
              /\ StepCall(c, [calls[c] EXCEPT !.pc = "json", !.body = r.values])
              /\ UNCHANGED lastOk
         ELSE Reject(c, r.kind)
    /\ UNCHANGED <<clock, envKey, netCalls, cleared, invalidated>>

\* await response.json() resumes
JsonParsed(c) ==
    /\ calls[c].pc = "json"
    /\ LET values == calls[c].body
       IN  IF ~Truthy(values) \/ Len(values.o) < 2
           THEN Reject(c, "empty")
           ELSE Store(c, values.o)
    /\ UNCHANGED <<clock, envKey, netCalls, cleared, invalidated>>

\* Two datasets, each a (sheetId, range), and the sheet the server holds for each
SheetKeys == {"A", "B"}
SheetOf == [k \in SheetKeys |-> IF k = "A" THEN SheetA ELSE SheetB]

\* fetchAndProcess(sheetId, range) is called for dataset k
FetchAndProcess(c, k) ==
    /\ FetchStart(c)
    /\ args' = [args EXCEPT ![c] = k]

\* await fetch(sheetsUrl) settles; the URL names the call's dataset, so a
\* successful response carries that dataset's sheet
FetchSettledFor(c) ==
    /\ FetchSettled(c)
    /\ calls'[c].pc = "json" => calls'[c].body = JObj(SheetOf[args[c]])
    /\ UNCHANGED args

InFlight == {c \in CallIds : calls[c].pc \in {"env", "net", "json"}}

\* clearCache()
ClearCache ==
    /\ cache' = [data |-> JNull, timestamp |-> JNull]
    /\ cleared' = cleared \cup InFlight
    /\ lastOk' = NoLastOk
    /\ UNCHANGED <<clock, envKey, calls, netCalls>>

\* Time passes
Tick ==
    /\ clock < MaxTicks * TickMs
    /\ clock' = clock + TickMs
    /\ UNCHANGED <<cache, envKey, calls, netCalls, lastOk, cleared, invalidated>>

-----------------------------------------------------------------------------
(* processSheetData and the statistics index applied to bounded tables *)

\* A table has MaxRows data rows at most.
MaxRows == 2

NotRun == [t |-> "none"]

ShortHeader == <<SName, SKoordinaten, SWerbetraeger>>

SOne == <<"1">>
STwo == <<"2">>
SSpot1 == <<"S", "p", "o", "t", "1">>
SSpot2 == <<"S", "p", "o", "t", "2">>
SBillboard == <<"B", "i", "l", "l", "b", "o", "a", "r", "d">>
SMega == <<"M", "e", "g", "a">>
SCoordA == <<"5", "2", ".", "5", ",", "1", "3", ".", "4">>
SCoordSpaced == <<" ", "5", "2", ".", "5", " ", ",", " ", "1", "3", ".", "4", " ">>
SCoordAbc == <<"a", "b", "c">>
SCoordOne == <<"5", "2", ".", "5">>
SCoordThree == <<"1", ",", "2", ",", "3">>
SCoordGarbage == <<"5", "2", ".", "5", "x", ",", "1", "3", ".", "4">>
SCoordInf == <<"I", "n", "f", "i", "n", "i", "t", "y", ",", "1", "3", ".", "4">>

\* The rows tried, as (name, coordinate cell, category)
SampleRows ==
    {<<SSpot1, SCoordA, SBillboard>>,
     <<SSpot2, SCoordA, SMega>>,
     <<SSpot2, SCoordSpaced, SBillboard>>,
     <<SSpot2, SCoordAbc, SBillboard>>,
     <<SSpot2, SCoordOne, SMega>>,
     <<SSpot2, SCoordThree, SMega>>,
     <<SSpot2, SCoordGarbage, SMega>>,
     <<SSpot2, SCoordInf, SBillboard>>,
     <<SSpot2, <<>>, SBillboard>>,
     <<<<>>, SCoordA, SBillboard>>,
     <<SSpot2, SCoordA, <<>>>>,
     <<SSpot2, SCoordA, SConstructor>>,
     <<SSpot1, SCoordA, STwo>>,
     <<SSpot2, SCoordA, SOne>>}

\* The Sheets API omits a row's trailing empty cells
RECURSIVE DropTrailingEmpty(_)
DropTrailingEmpty(row) ==
    IF row # <<>> /\ row[Len(row)] = <<>>
    THEN DropTrailingEmpty(SubSeq(row, 1, Len(row) - 1))
    ELSE row

\* The sample row laid out under a header; the other columns are empty
LayOut(header, r) ==
    DropTrailingEmpty([i \in 1..Len(header) |->
        IF header[i] = SName THEN r[1]
        ELSE IF header[i] = SKoordinaten THEN r[2]
        ELSE IF header[i] = SWerbetraeger THEN r[3]
        ELSE <<>>])

SeqsUpTo(S, n) == UNION {[1..k -> S] : k \in 0..n}

SheetTables ==
    {<<h>> \o [i \in 1..Len(rs) |-> LayOut(h, rs[i])] :
        h \in {ShortHeader, WideHeader}, rs \in SeqsUpTo(SampleRows, MaxRows)}

InitTransform ==
    /\ tValues \in SheetTables
    /\ tOut = NotRun

\* processSheetData(values) is called
Transform ==
    /\ tOut = NotRun
    /\ tOut' = ProcessSheetData(tValues)
    /\ UNCHANGED tValues

SMitte == <<"M", "i", "t", "t", "e">>
SPankow == <<"P", "a", "n", "k", "o", "w">>
SNumA == <<"3", "8", "4", "1", "7", "2">>
SNumFrac == <<" ", "3", "9", ".", "5", " ">>
SNumDotted == <<"3", "8", "4", ".", "1", "7", "2">>
SNumGrouped == <<"3", ".", "6", "4", "5", ".", "0", "0", "0">>
SNotANumber == <<"k", ".", "A", ".">>
SBlank == <<" ">>

\* The header of the statistics sheet as documented, in two spellings, and one
\* that lacks the name and notes columns
StatsHeaders ==
    {<<SCartodbId, SNameLc, SPopulationLc, SArea, SAdcountLc, SNotes>>,
     <<<<"C", "a", "r", "t", "o", "D", "B", "_", "I", "D", " ">>, SName,
       <<"P", "o", "p", "u", "l", "a", "t", "i", "o", "n">>, SArea,
       <<"a", "d", "C", "o", "u", "n", "t">>, SNotes>>,
     <<SCartodbId, SPopulationLc, SArea, SAdcountLc>>}

\* The rows tried, as (id, name, population, area, adcount, notes)
SampleStatsRows ==
    {<<SOne, SMitte, SNumA, SNumFrac, SOne, SNotes>>,
     <<STwo, SPankow, SNumA, SNumDotted, STwo, <<>>>>,
     <<SOne, SPankow, <<>>, <<>>, <<>>, <<>>>>,
     <<STwo, SMitte, SNotANumber, SNumFrac, SOne, <<>>>>,
     <<STwo, SMitte, SNumGrouped, SBlank, SOne, <<>>>>,
     <<SOne, SMitte, SNumA, SCoordInf, STwo, <<>>>>,
     <<<<>>, SMitte, SNumA, SNumFrac, SOne, <<>>>>,
     <<SBlank, SPankow, SNumA, SNumFrac, SOne, <<>>>>,
     <<SOne>>,
     <<>>}

StatsLayOut(header, r) ==
    LET cols == {<<SCartodbId, 0>>, <<SNameLc, 1>>, <<SPopulationLc, 2>>,
                 <<SArea, 3>>, <<SAdcountLc, 4>>, <<SNotes, 5>>}
    IN  DropTrailingEmpty([k \in 1..Len(header) |->
            LET j == CHOOSE c \in cols : ToLowerCase(Trim(header[k])) = c[1]
            IN  OrEmpty(At(r, j[2]))])

StatsTables ==
    {<<>>}
    \cup {<<h>> \o [i \in 1..Len(rs) |-> StatsLayOut(h, rs[i])] :
            h \in StatsHeaders, rs \in SeqsUpTo(SampleStatsRows, MaxRows)}

InitStats ==
    /\ tValues \in StatsTables
    /\ tOut = NotRun

\* The index is built from data.values
BuildIndex ==
    /\ tOut = NotRun
    /\ tOut' = BuildStatsIndex(tValues)
    /\ UNCHANGED tValues

-----------------------------------------------------------------------------
(* InteractiveMap.loadTransportationRoutes: the features of the layer built *)

\* The collection has MaxFeatures features at most, routesToDisplay MaxRoutes
\* entries at most.
MaxFeatures == 3
MaxRoutes == 2

SRouteS1 == <<"S", "1">>
SRouteU2 == <<"U", "2">>
\* feat.properties.route_name: a route name, or undefined when the properties
\* have no such member
RouteNames == {SRouteS1, SRouteU2, Undefined}

\* routesToDisplay.includes(x)
Includes(list, x) == \E i \in 1..Len(list) : list[i] = x

\* The variant that filters whatever the list holds
FilterAlways(features, routesToDisplay) ==
    SelectSeq(features, LAMBDA feat : Includes(routesToDisplay, feat.route_name))

\* Lines 302-307: geoJsonData.features as handed to createTransportationLayer
TransportationFeatures(features, routesToDisplay) ==
    IF Len(routesToDisplay) > 0
    THEN SelectSeq(features, LAMBDA feat : Includes(routesToDisplay, feat.route_name))
    ELSE features

\* The collections and filter lists tried; n is the feature's place in the file
OverlayInputs ==
    {[features |-> [i \in 1..Len(names) |-> [n |-> i, route_name |-> names[i]]],
      routes   |-> routes] :
        names \in SeqsUpTo(RouteNames, MaxFeatures),
        routes \in SeqsUpTo({SRouteS1, SRouteU2}, MaxRoutes)}

InitOverlay ==
    /\ tValues \in OverlayInputs
    /\ tOut = NotRun

\* The layer is built from the response and routesToDisplay
BuildTransportation ==
    /\ tOut = NotRun
    /\ tOut' = JObj(TransportationFeatures(tValues.features, tValues.routes))
    /\ UNCHANGED tValues

-----------------------------------------------------------------------------
(* InteractiveMap: layers, the district info control and the event handlers *)

\* The district GeoJSON holds NumRegions regions, with cartodb_id 1, 2, ...
NumRegions == 2
Regions == 1..NumRegions
\* loadDistrictBoundaries / loadTransportationRoutes succeed this often at most.
MaxDistrictLoads == 2
MaxOverlayLoads == 2

\* String(properties.cartodb_id), the key statsById is read with
RegionKey(r) == <<Digits[r + 1]>>

\* createDistrictLayer: the style function
DefaultStyle ==
    [opacity |-> Num(1, 0), fillOpacity |-> Num(0, 0), weight |-> 2,
     dashArray |-> <<"1", "0">>]

\* L.Path.setStyle: the given options overwrite, the others stay
SetStyle(old, upd) ==
    [k \in DOMAIN old |-> IF k \in DOMAIN upd THEN upd[k] ELSE old[k]]

\* L.GeoJSON.setStyle on this.layers.districts: every feature of that layer
SetLayerStyle(upd) ==
    [districtLayers EXCEPT ![curDistricts] =
        [r \in Regions |-> SetStyle(@[r], upd)]]

\* A feature is a region of a district layer that is on the map
Features == {<<l, r>> : l \in onMap, r \in Regions}

EmptyState == [t |-> "empty"]
\* _updateContent: title and notes fall back to the prompt and the hint when
\* the name is falsy; a chip is shown for each finite number
UpdateContent(e) ==
    [t          |-> "stats",
     title      |-> IF TruthyCell(e.name) THEN e.name ELSE <<"prompt">>,
     area       |-> IF IsFinite(e.area) THEN e.area ELSE JNull,
     population |-> IF IsFinite(e.population) THEN e.population ELSE JNull,
     adCount    |-> IF IsFinite(e.adCount) THEN e.adCount ELSE JNull,
     notes      |-> IF TruthyCell(e.name) THEN e.notes ELSE <<"hint">>]

\* The variant of update without the !statsById[id] test: destructuring the
\* missing entry raises a TypeError
PanelUpdateUnchecked(id) ==
    IF ~Truthy(statsById) \/ id = 0
    THEN EmptyState
    ELSE IF RegionKey(id) \notin DOMAIN statsById.o
    THEN Throw
    ELSE UpdateContent(statsById.o[RegionKey(id)])

\* districtInfoControl.update(districtProperties): id is 0 for "no properties"
PanelUpdate(id) ==
    IF ~Truthy(statsById) \/ id = 0 \/ RegionKey(id) \notin DOMAIN statsById.o
    THEN EmptyState
    ELSE UpdateContent(statsById.o[RegionKey(id)])

\* The statistics sheets the server may answer with
StatsSheet1 ==
    <<<<SCartodbId, SNameLc, SPopulationLc, SArea, SAdcountLc, SNotes>>,
      <<SOne, SMitte, SNumA, SNumFrac, SOne, SNotes>>>>
StatsSheet2 ==
    <<<<SCartodbId, SNameLc, SPopulationLc, SArea, SAdcountLc, SNotes>>,
      <<STwo, SPankow, SNotANumber, SNumFrac>>>>

StatsSheets == {StatsSheet1, StatsSheet2}
StatsIndexOf == [sheet \in StatsSheets |-> BuildStatsIndex(sheet)]

\* new InteractiveMap(config): init() sets the control up only when
\* features.showDistrictInfo is truthy; onAdd creates _div and calls update()
InitMap ==
    /\ showDistrictInfo \in BOOLEAN
    /\ districtLayers = <<>>
    /\ onMap = {}
    /\ curDistricts = 0
    /\ transport = 0
    /\ transportOnMap = {}
    /\ state = [isTransportationVisible |-> FALSE, currentDistrict |-> JNull]
    /\ panel = [exists |-> showDistrictInfo, visible |-> FALSE, shown |-> EmptyState]
    /\ statsById = JNull
    /\ viewport = 0
    /\ lastError = FALSE
    /\ hovered = {}
    /\ togglesOdd = FALSE

\* loadDistrictBoundaries(url) succeeds: the new layer is created and added
LoadDistrictBoundaries ==
    /\ Len(districtLayers) < MaxDistrictLoads
    /\ districtLayers' = Append(districtLayers, [r \in Regions |-> DefaultStyle])
    /\ curDistricts' = Len(districtLayers) + 1
    /\ onMap' = onMap \cup {Len(districtLayers) + 1}
    /\ lastError' = FALSE
    /\ UNCHANGED <<showDistrictInfo, transport, transportOnMap, state, panel,
                   statsById, viewport, hovered, togglesOdd>>

\* loadTransportationRoutes(url, routes) succeeds: the layer is created, not added
LoadTransportationRoutes ==
    /\ transport < MaxOverlayLoads
    /\ transport' = transport + 1
    /\ lastError' = FALSE
    /\ UNCHANGED <<showDistrictInfo, districtLayers, onMap, curDistricts,
                   transportOnMap, state, panel, statsById, viewport, hovered,
                   togglesOdd>>

\* loadDistrictStats(url) succeeds: window.statsById is replaced
LoadDistrictStats ==
    /\ \E sheet \in StatsSheets : statsById' = StatsIndexOf[sheet]
    /\ lastError' = FALSE
    /\ UNCHANGED <<showDistrictInfo, districtLayers, onMap, curDistricts, transport,
                   transportOnMap, state, panel, viewport, hovered, togglesOdd>>

\* loadDistrictStats(url) of the second map succeeds: the index it built is
\* assigned to window.statsById, the one global both maps' panels read
PeerLoadDistrictStats ==
    /\ \E sheet \in StatsSheets :
         /\ statsById' = StatsIndexOf[sheet]
         /\ peer' = [peer EXCEPT !.loaded = StatsIndexOf[sheet]]
    /\ UNCHANGED <<showDistrictInfo, districtLayers, onMap, curDistricts, transport,
                   transportOnMap, state, panel, viewport, lastError, hovered,
                   togglesOdd>>

\* highlightDistrict of the second map, as far as its panel goes:
\* this.controls.districtInfo.update(layer.feature.properties)
PeerHighlightDistrict(r) ==
    /\ peer' = [peer EXCEPT !.region = r, !.shown = PanelUpdate(r)]
    /\ UNCHANGED mapVars

\* The variant of toggleTransportation that also closes the panel
ToggleClosesPanel ==
    /\ lastError' = FALSE
    /\ togglesOdd' = ~togglesOdd
    /\ panel' = [panel EXCEPT !.visible = FALSE]
    /\ IF transport = 0 \/ curDistricts = 0
       THEN UNCHANGED <<districtLayers, transportOnMap, state>>
       ELSE IF state.isTransportationVisible
       THEN /\ transportOnMap' = transportOnMap \ {transport}
            /\ districtLayers' = SetLayerStyle([opacity |-> Num(1, 0)])
            /\ state' = [state EXCEPT !.isTransportationVisible = FALSE]
       ELSE /\ transportOnMap' = transportOnMap \cup {transport}
            /\ districtLayers' = SetLayerStyle([opacity |-> Num(2, -1)])
            /\ state' = [state EXCEPT !.isTransportationVisible = TRUE]
    /\ UNCHANGED <<showDistrictInfo, onMap, curDistricts, transport, statsById,
                   viewport, hovered>>

\* toggleTransportation()
ToggleTransportation ==
    /\ lastError' = FALSE
    /\ togglesOdd' = ~togglesOdd
    /\ IF transport = 0 \/ curDistricts = 0
       THEN UNCHANGED <<districtLayers, transportOnMap, state>>
       ELSE IF state.isTransportationVisible
       THEN /\ transportOnMap' = transportOnMap \ {transport}
            /\ districtLayers' = SetLayerStyle([opacity |-> Num(1, 0)])
            /\ state' = [state EXCEPT !.isTransportationVisible = FALSE]
       ELSE /\ transportOnMap' = transportOnMap \cup {transport}
            /\ districtLayers' = SetLayerStyle([opacity |-> Num(2, -1)])
            /\ state' = [state EXCEPT !.isTransportationVisible = TRUE]
    /\ UNCHANGED <<showDistrictInfo, onMap, curDistricts, transport, panel,
                   statsById, viewport, hovered>>

\* A hover handler that also selects the region it highlights
HighlightSelects(f) ==
    /\ f \in Features
    /\ districtLayers' = [districtLayers EXCEPT ![f[1]][f[2]] =
          SetStyle(@, [weight |-> 5, dashArray |-> <<>>, fillOpacity |-> Num(4, -1)])]
    /\ IF panel.exists
       THEN /\ panel' = [panel EXCEPT !.shown = PanelUpdate(f[2]), !.visible = TRUE]
            /\ lastError' = FALSE
       ELSE /\ panel' = panel
            /\ lastError' = TRUE
    /\ hovered' = hovered \cup {f}
    /\ state' = [state EXCEPT !.currentDistrict = JInt(f[2])]
    /\ UNCHANGED <<showDistrictInfo, onMap, curDistricts, transport, transportOnMap,
                   statsById, viewport, togglesOdd>>

\* highlightDistrict(event): mouseover on feature f. With no control,
\* this.controls.districtInfo.update raises a TypeError after setStyle.
HighlightDistrict(f) ==
    /\ f \in Features
    /\ districtLayers' = [districtLayers EXCEPT ![f[1]][f[2]] =
          SetStyle(@, [weight |-> 5, dashArray |-> <<>>, fillOpacity |-> Num(4, -1)])]
    /\ IF panel.exists
       THEN /\ panel' = [panel EXCEPT !.shown = PanelUpdate(f[2]), !.visible = TRUE]
            /\ lastError' = FALSE
       ELSE /\ panel' = panel
            /\ lastError' = TRUE
    /\ hovered' = hovered \cup {f}
    /\ UNCHANGED <<showDistrictInfo, onMap, curDistricts, transport, transportOnMap,
                   state, statsById, viewport, togglesOdd>>

\* resetDistrictHighlight(event): mouseout on feature f
ResetDistrictHighlight(f) ==
    /\ f \in Features
    /\ districtLayers' = [districtLayers EXCEPT ![f[1]][f[2]] =
          SetStyle(@, [opacity |-> IF state.isTransportationVisible
                                   THEN Num(2, -1) ELSE Num(1, 0),
                       fillOpacity |-> Num(0, 0), weight |-> 2,
                       dashArray |-> <<"1", "0">>])]
    /\ IF panel.exists
       THEN /\ panel' = [panel EXCEPT !.visible = FALSE]
            /\ lastError' = FALSE
       ELSE /\ panel' = panel
            /\ lastError' = TRUE
    /\ hovered' = hovered \ {f}
    /\ UNCHANGED <<showDistrictInfo, onMap, curDistricts, transport, transportOnMap,
                   state, statsById, viewport, togglesOdd>>

\* zoomToDistrict(event): click on feature f
ZoomToDistrict(f) ==
    /\ f \in Features
    /\ viewport' = f[2]
    /\ IF panel.exists
       THEN /\ panel' = [panel EXCEPT !.visible = TRUE]
            /\ lastError' = FALSE
       ELSE /\ panel' = panel
            /\ lastError' = TRUE
    /\ UNCHANGED <<showDistrictInfo, districtLayers, onMap, curDistricts, transport,
                   transportOnMap, state, statsById, hovered, togglesOdd>>

\* The map as initializeWithData leaves it when it resolves with a district
\* source configured: the statistics loaded if configured, the district layer on
\* the map, the transportation layer created if configured
InitLoaded ==
    /\ showDistrictInfo \in BOOLEAN
    /\ districtLayers = <<[r \in Regions |-> DefaultStyle]>>
    /\ onMap = {1}
    /\ curDistricts = 1
    /\ transport \in {0, 1}
    /\ transportOnMap = {}
    /\ state = [isTransportationVisible |-> FALSE, currentDistrict |-> JNull]
    /\ panel = [exists |-> showDistrictInfo, visible |-> FALSE, shown |-> EmptyState]
    /\ statsById \in {JNull} \cup {StatsIndexOf[sheet] : sheet \in StatsSheets}
    /\ viewport = 0
    /\ lastError = FALSE
    /\ hovered = {}
    /\ togglesOdd = FALSE

-----------------------------------------------------------------------------
(* InteractiveMap.initializeWithData *)

\* What fetch(url) and response.json() of loadDistrictStats may settle with: a
\* rejection, a non-success status, or a success whose body has no values, no
\* row, a header row only, or a sheet
StatsResponses ==
    {[kind |-> "reject"], [kind |-> "status"]}
    \cup {[kind |-> "ok", values |-> v] :
            v \in {JNull, JObj(<<>>), JObj(<<StatsSheet1[1]>>)}
                  \cup {JObj(sheet) : sheet \in StatsSheets}}

\* loadDistrictStats under response r: the index, or Throw. Destructuring
\* data.values raises a TypeError when the body has no values.
StatsOutcomeOf ==
    [r \in StatsResponses |->
        IF r.kind # "ok" THEN Throw
        ELSE IF ~Truthy(r.values) THEN Throw
        ELSE BuildStatsIndex(r.values.o)]

\* cfg: which of the three loads the configuration asks for
\*   stats:     features.showDistrictStats && dataSources.districtStats
\*   districts: dataSources.districts
\*   transport: features.showTransportation && dataSources.transportation
\* pc: "idle", then the load awaited, then "done"; result: how the promise
\* settled. History: statsFailed (loadDistrictStats rejected)
BootConfigs == [stats : BOOLEAN, districts : BOOLEAN, transport : BOOLEAN]

InitBoot ==
    \E cfg \in BootConfigs :
        boot = [pc |-> "idle", cfg |-> cfg, result |-> "none", statsFailed |-> FALSE]

\* The load awaited next, "done" when none is left
StageAfter(cfg, stage) ==
    IF stage = "idle" /\ cfg.stats THEN "stats"
    ELSE IF stage \in {"idle", "stats"} /\ cfg.districts THEN "districts"
    ELSE IF stage \in {"idle", "stats", "districts"} /\ cfg.transport THEN "transport"
    ELSE "done"

\* The awaited load resolved: go on with the next configured one, or return true
BootAdvance ==
    LET next == StageAfter(boot.cfg, boot.pc)
    IN  boot' = [boot EXCEPT !.pc = next,
                             !.result = IF next = "done" THEN "ok" ELSE @]

\* The awaited load rejected: the catch block rethrows
BootFail ==
    boot' = [boot EXCEPT !.pc = "done", !.result = "error",
                         !.statsFailed = @ \/ boot.pc = "stats"]

\* initializeWithData() is called
InitializeWithData ==
    /\ boot.pc = "idle"
    /\ BootAdvance
    /\ UNCHANGED mapVars

\* await this.loadDistrictStats(...) settles
BootStatsSettled ==
    /\ boot.pc = "stats"
    /\ \E r \in StatsResponses :
         IF StatsOutcomeOf[r].t = "throw"
         THEN /\ BootFail
              /\ UNCHANGED mapVars
         ELSE /\ BootAdvance
              /\ statsById' = StatsOutcomeOf[r]
              /\ UNCHANGED <<showDistrictInfo, districtLayers, onMap, curDistricts,
                             transport, transportOnMap, state, panel, viewport,
                             lastError, hovered, togglesOdd>>

\* The variant of loadDistrictStats that updates the installed index entry by
\* entry instead of replacing it
MergeDistrictStatsFrom(r) ==
    /\ IF StatsOutcomeOf[r].t = "throw"
       THEN statsById' = statsById
       ELSE IF ~Truthy(statsById)
       THEN statsById' = StatsOutcomeOf[r]
       ELSE statsById' =
              JObj([k \in DOMAIN statsById.o \cup DOMAIN StatsOutcomeOf[r].o |->
                      IF k \in DOMAIN StatsOutcomeOf[r].o
                      THEN StatsOutcomeOf[r].o[k] ELSE statsById.o[k]])
    /\ UNCHANGED <<showDistrictInfo, districtLayers, onMap, curDistricts, transport,
                   transportOnMap, state, panel, viewport, lastError, hovered,
                   togglesOdd>>

\* loadDistrictStats(url) called on its own (a refresh), under response r: it
\* throws before window.statsById is assigned, or assigns the new index
LoadDistrictStatsFrom(r) ==
    /\ IF StatsOutcomeOf[r].t = "throw"
       THEN statsById' = statsById
       ELSE statsById' = StatsOutcomeOf[r]
    /\ UNCHANGED <<showDistrictInfo, districtLayers, onMap, curDistricts, transport,
                   transportOnMap, state, panel, viewport, lastError, hovered,
                   togglesOdd>>

\* await this.loadDistrictBoundaries(...) settles
BootDistrictsSettled ==
    /\ boot.pc = "districts"
    /\ \/ LoadDistrictBoundaries /\ BootAdvance
       \/ BootFail /\ UNCHANGED mapVars

\* await this.loadTransportationRoutes(...) settles
BootTransportSettled ==
    /\ boot.pc = "transport"
    /\ \/ LoadTransportationRoutes /\ BootAdvance
       \/ BootFail /\ UNCHANGED mapVars

-----------------------------------------------------------------------------
(* EnvLoader.load: shared/js/env-loader.js and the Netlify variant in       *)
(* shared/js/map-utils.js                                                   *)

\* load is invoked MaxLoads times at most; invocations may overlap.
MaxLoads == 3
LoadIds == 1..MaxLoads

SApiKeyName == "GOOGLE_SHEETS_API_KEY"
\* An object is the set of its <<key, value>> pairs
NoVariables == JObj({})
\* The lines of a .env file: [key, value] for KEY=value, key "" for a blank
\* line or a comment
EnvFiles ==
    {<<>>,
     <<[key |-> "", value |-> ""], [key |-> SApiKeyName, value |-> "file"]>>,
     <<[key |-> SApiKeyName, value |-> "old"], [key |-> SApiKeyName, value |-> "file"]>>}
\* parse(content): blank lines and comments are skipped; a later line of the
\* same key overwrites
Parse(content) ==
    JObj({<<content[i].key, content[i].value>> :
            i \in {j \in 1..Len(content) :
                     /\ content[j].key # ""
                     /\ \A k \in (j + 1)..Len(content) : content[k].key # content[j].key}})
\* What fetch('/.env') and response.text() may settle with
EnvResponses ==
    {[kind |-> "reject"], [kind |-> "status"], [kind |-> "badbody"]}
    \cup {[kind |-> "ok", content |-> f] : f \in EnvFiles}
\* What fetch('/.netlify/functions/config') and response.json() may settle with
ConfigResponses ==
    {[kind |-> "reject"], [kind |-> "status"], [kind |-> "badbody"],
     [kind |-> "ok", json |-> NoVariables],
     [kind |-> "ok", json |-> JObj({<<SApiKeyName, "fn">>})]}

\* pc: "idle", "fn" (the config function is awaited), "file" (/.env is
\* awaited), "done"; result: what the promise settled with. History: late (a
\* load had settled when this one was invoked), reqs (the requests it issued),
\* expected (what the load that settled last had returned, for a late one)
IdleLoad == [pc |-> "idle", result |-> NoResult, late |-> FALSE, reqs |-> 0,
             expected |-> NoResult]

InitEnv ==
    /\ envLoader = [variables |-> NoVariables, loaded |-> FALSE]
    /\ envSource \in
         {[variant |-> "env", config |-> JNull],
          [variant |-> "netlify", config |-> JNull],
          [variant |-> "netlify", config |-> JObj({<<SApiKeyName, "built">>})]}
    /\ loads = [l \in LoadIds |-> IdleLoad]
    /\ lastLoad = 0

\* The variant of the failure paths that leaves loaded false, so that the
\* next load tries the sources again
SettleRetrying(l, variables, ok) ==
    /\ envLoader' = [variables |-> variables, loaded |-> envLoader.loaded \/ ok]
    /\ loads' = [loads EXCEPT ![l] = [@ EXCEPT !.pc = "done", !.result = variables]]
    /\ lastLoad' = l

\* this.variables = ...; this.loaded = true; return this.variables
\* (ok: a source answered; the failure paths set loaded all the same)
Settle(l, variables, ok) ==
    /\ envLoader' = [variables |-> variables, loaded |-> TRUE]
    /\ loads' = [loads EXCEPT ![l] = [@ EXCEPT !.pc = "done", !.result = variables]]
    /\ lastLoad' = l

\* fetch(url) is issued and awaited by load l
Await(l, rec, stage) ==
    /\ loads' = [loads EXCEPT ![l] = [rec EXCEPT !.pc = stage, !.reqs = @ + 1]]
    /\ UNCHANGED <<envLoader, lastLoad>>

\* load() is called: up to the first await
Load(l) ==
    /\ loads[l].pc = "idle"
    /\ IF l = 1 THEN TRUE ELSE loads[l - 1].pc # "idle"
    /\ LET rec == [loads[l] EXCEPT
                     !.late = lastLoad # 0,
                     !.expected = IF lastLoad # 0 THEN loads[lastLoad].result
                                  ELSE NoResult]
       IN  IF envLoader.loaded
           THEN /\ loads' = [loads EXCEPT ![l] =
                               [rec EXCEPT !.pc = "done", !.result = envLoader.variables]]
                /\ lastLoad' = l
                /\ UNCHANGED envLoader
           ELSE IF envSource.variant = "netlify" /\ Truthy(envSource.config)
           THEN /\ envLoader' = [variables |-> envSource.config, loaded |-> TRUE]
                /\ loads' = [loads EXCEPT ![l] =
                               [rec EXCEPT !.pc = "done", !.result = envSource.config]]
                /\ lastLoad' = l
           ELSE Await(l, rec, IF envSource.variant = "netlify" THEN "fn" ELSE "file")
    /\ UNCHANGED envSource

\* The Netlify variant: fetch('/.netlify/functions/config') and response.json()
\* settle; a failure of either falls through to fetch('/.env')
ConfigSettled(l) ==
    /\ loads[l].pc = "fn"
    /\ \E r \in ConfigResponses :
         IF r.kind = "ok"
         THEN Settle(l, r.json, TRUE)
         ELSE Await(l, loads[l], "file")
    /\ UNCHANGED envSource

\* fetch('/.env') and response.text() settle
EnvSettled(l) ==
    /\ loads[l].pc = "file"
    /\ \E r \in EnvResponses :
         IF r.kind = "ok"
         THEN Settle(l, Parse(r.content), TRUE)
         ELSE Settle(l, envLoader.variables, FALSE)
    /\ UNCHANGED envSource

-----------------------------------------------------------------------------
(* The config function: exports.handler of the Netlify function            *)

SApiKeyChars ==
    <<"G", "O", "O", "G", "L", "E", "_", "S", "H", "E", "E", "T", "S", "_", "A",
      "P", "I", "_", "K", "E", "Y">>
SSecret == <<"S", "E", "C", "R", "E", "T">>
SPath == <<"P", "A", "T", "H">>
SNodeEnv == <<"N", "O", "D", "E">>
\* Object.keys(process.env) in creation order
EnvOrder == <<SSecret, SApiKeyChars, SPath, SNodeEnv>>
\* JSON.stringify({ error: 'Method not allowed' })
MethodNotAllowedBody ==
    <<"{", "\"", "e", "r", "r", "o", "r", "\"", ":", "\"", "M", "e", "t", "h", "o",
      "d", " ", "n", "o", "t", " ", "a", "l", "l", "o", "w", "e", "d", "\"", "}">>
CorsHeaders ==
    {<<"Content-Type", "application/json">>, <<"Cache-Control", "public, max-age=300">>,
     <<"Access-Control-Allow-Origin", "*">>, <<"Access-Control-Allow-Methods", "GET">>,
     <<"Access-Control-Allow-Headers", "Content-Type">>}

\* JSON.stringify of a string: quoted, with " and \ escaped
RECURSIVE Escaped(_)
Escaped(s) ==
    IF s = <<>> THEN <<>>
    ELSE (IF Head(s) \in {"\"", "\\"} THEN <<"\\", Head(s)>> ELSE <<Head(s)>>)
         \o Escaped(Tail(s))
Quoted(s) == <<"\"">> \o Escaped(s) \o <<"\"">>

\* JSON.stringify of an object whose values are strings; the object is the
\* sequence of its <<key, value>> pairs in creation order
RECURSIVE Members(_)
Members(config) ==
    IF config = <<>> THEN <<>>
    ELSE Quoted(config[1][1]) \o <<":">> \o Quoted(config[1][2])
         \o (IF Len(config) > 1 THEN <<",">> ELSE <<>>) \o Members(Tail(config))
Stringify(config) == <<"{">> \o Members(config) \o <<"}">>

\* process.env[name]: a string, or undefined when the variable is not set
EnvValue(env, name) == IF name \in DOMAIN env THEN env[name] ELSE Undefined

\* The variant of lines 19-24 that hands out every variable of the environment
ConfigOfAll(env) ==
    SelectSeq([i \in 1..Len(EnvOrder) |-> <<EnvOrder[i], EnvValue(env, EnvOrder[i])>>],
              LAMBDA kv : kv[2] # Undefined)

\* Lines 19-24: config holds the API key when it is set and not empty
ConfigOf(env) ==
    IF TruthyCell(EnvValue(env, SApiKeyChars))
    THEN <<<<SApiKeyChars, EnvValue(env, SApiKeyChars)>>>>
    ELSE <<>>

\* exports.handler(event, context) with event.httpMethod = method
Handler(method, env) ==
    IF method # "GET"
    THEN [statusCode |-> 405, headers |-> {}, body |-> MethodNotAllowedBody]
    ELSE [statusCode |-> 200, headers |-> CorsHeaders, body |-> Stringify(ConfigOf(env))]

\* The requests and environments tried: the key unset, empty, plain or with a
\* quote in it; each other variable set or not
HttpMethods == {"GET", "POST", "OPTIONS", "get"}
SampleKeys == {<<>>, <<"k", "1">>, <<"a", "\"", "b">>}
OtherValues == [n \in {SSecret, SPath, SNodeEnv} |->
                  IF n = SSecret THEN <<"s", "3">> ELSE IF n = SPath THEN <<"/", "b">>
                  ELSE <<"p", "r", "o", "d">>]
Environments ==
    {[n \in names |-> IF n = SApiKeyChars THEN key ELSE OtherValues[n]] :
        names \in SUBSET {SSecret, SApiKeyChars, SPath, SNodeEnv}, key \in SampleKeys}
InitConfig ==
    /\ tValues \in {[method |-> mth, env |-> env] : mth \in HttpMethods, env \in Environments}
    /\ tOut = NotRun
ServeConfig ==
    /\ tOut = NotRun
    /\ tOut' = Handler(tValues.method, tValues.env)
    /\ UNCHANGED tValues

-----------------------------------------------------------------------------
(* CityMapFactory.createCityMap                                             *)

\* options: whether showLoadingCallback / hideLoadingCallback were given
InitFactory ==
    \E o \in [show : BOOLEAN, hide : BOOLEAN] :
        factory = [pc |-> "idle", options |-> o, result |-> "none", log |-> <<>>]

\* The callbacks a step of initializeWithData invokes, in order: show before
\* each load it starts, hide before it returns true, hide in its catch block
InitCallbacks(o, before, after) ==
    (IF o.show /\ after.pc \in {"stats", "districts", "transport"} /\ after.pc # before.pc
     THEN <<"show">> ELSE <<>>)
    \o (IF o.hide /\ after.pc = "done" THEN <<"hide">> ELSE <<>>)

\* catch (error) { ...; if (hideLoadingCallback) hideLoadingCallback(); throw error; }
CatchCallbacks(o) == IF o.hide THEN <<"hide">> ELSE <<>>

\* A step of the awaited initializeWithData as createCityMap sees it: when it
\* resolves, createCityMap sets the handlers up and returns the map; when it
\* rejects, the catch block of createCityMap runs
FactoryFollows ==
    factory' = [factory EXCEPT
        !.pc = IF boot'.pc = "done" THEN "done" ELSE "init",
        !.result = IF boot'.pc = "done" THEN boot'.result ELSE @,
        !.log = @ \o InitCallbacks(factory.options, boot, boot')
                  \o (IF boot'.result = "error"
                      THEN CatchCallbacks(factory.options) ELSE <<>>)]

\* createCityMap(config, options) is called: new InteractiveMap(config), then
\* initializeWithData up to its first await
CreateCityMap ==
    /\ factory.pc = "idle"
    /\ InitializeWithData
    /\ FactoryFollows

-----------------------------------------------------------------------------
(* MapBase.setupCustomScrollZoom: the instruction overlay                   *)

\* map.getMinZoom() / map.getMaxZoom() of the city map
MinZoom == 10
MaxZoom == 14
\* The wheel events the user produces, at most
MaxWheels == 4

SInstruction == "Strg + Mausrad zum Zoomen"
SBelowMin == "Maximaler Zoom erreicht"
SAboveMax == "Minimaler Zoom erreicht"

\* The element is created with the instruction text and no inline opacity;
\* instructionTimeout is undefined
InitZoomUi ==
    \E z \in MinZoom..MaxZoom :
        zoomUi = [zoom |-> z, opacity |-> "", text |-> SInstruction, timer |-> "none",
                  wheels |-> 0]

\* The wheel listener. timer names the callback of the one pending timeout:
\* "reset" (lines 120-123) or "hide" (lines 135-137); setting one clears the other
Wheel(ctrlKey, deltaY) ==
    /\ zoomUi.wheels < MaxWheels
    /\ LET newZoom == zoomUi.zoom + (IF deltaY > 0 THEN -1 ELSE 1)
           counted == [zoomUi EXCEPT !.wheels = @ + 1]
       IN  zoomUi' =
             IF ctrlKey
             THEN IF newZoom >= MinZoom /\ newZoom <= MaxZoom
                  THEN [counted EXCEPT !.opacity = "0", !.zoom = newZoom]
                  ELSE [counted EXCEPT
                          !.text = IF newZoom < MinZoom THEN SBelowMin ELSE SAboveMax,
                          !.opacity = "1",
                          !.timer = "reset"]
             ELSE [counted EXCEPT !.opacity = "1", !.timer = "hide"]

\* The pending timeout runs its callback
ZoomTimer ==
    /\ zoomUi.timer # "none"
    /\ zoomUi' = [zoomUi EXCEPT
                    !.opacity = "0",
                    !.text = IF zoomUi.timer = "reset" THEN SInstruction ELSE @,
                    !.timer = "none"]

-----------------------------------------------------------------------------
(* MapUtils.debounce                                                        *)

\* Time runs in whole units up to MaxTime; wait is any delay up to MaxWait;
\* the debounced function is called MaxBurstCalls times at most.
MaxTime == 6
MaxWait == 2
MaxBurstCalls == 3
CallArgs == {"a", "b"}
NoTimeout == -1

\* const f = MapUtils.debounce(func, wait): timeout is undefined
InitDebounce ==
    \E w \in 0..MaxWait :
        debounced = [wait |-> w, now |-> 0, due |-> NoTimeout, args |-> "",
                     calls |-> <<>>, invoked |-> <<>>]

\* The variant of executedFunction that leaves a pending timeout alone: a call
\* during a burst neither postpones the invocation nor replaces its arguments
ExecutedOncePending(a) ==
    /\ Len(debounced.calls) < MaxBurstCalls
    /\ debounced.due # debounced.now
    /\ debounced.now + debounced.wait <= MaxTime
    /\ debounced' =
         IF debounced.due # NoTimeout
         THEN [debounced EXCEPT
                 !.calls = Append(@, [at |-> debounced.now, args |-> a])]
         ELSE [debounced EXCEPT
                 !.due = debounced.now + debounced.wait,
                 !.args = a,
                 !.calls = Append(@, [at |-> debounced.now, args |-> a])]

\* executedFunction(...args): clearTimeout(timeout); timeout = setTimeout(later,
\* wait). A timeout that is due runs before a call arriving at that instant,
\* and no call is made whose timeout would be due after MaxTime.
ExecutedFunction(a) ==
    /\ Len(debounced.calls) < MaxBurstCalls
    /\ debounced.due # debounced.now
    /\ debounced.now + debounced.wait <= MaxTime
    /\ debounced' = [debounced EXCEPT
                       !.due = debounced.now + debounced.wait,
                       !.args = a,
                       !.calls = Append(@, [at |-> debounced.now, args |-> a])]

\* later(): the timeout runs when it is due, func(...args)
Later ==
    /\ debounced.due = debounced.now
    /\ debounced' = [debounced EXCEPT
                       !.due = NoTimeout,
                       !.invoked = Append(@, [at |-> debounced.now, args |-> debounced.args])]

\* Time passes, once the timeout due now has run
TimePasses ==
    /\ debounced.now < MaxTime
    /\ debounced.due # debounced.now
    /\ debounced' = [debounced EXCEPT !.now = @ + 1]

-----------------------------------------------------------------------------
(* Specifications *)

\* The parts a specification leaves alone stay as constructed.
IdleCache ==
    /\ clock = 0
    /\ cache = [data |-> JNull, timestamp |-> JNull]
    /\ envKey = ""
    /\ calls = [c \in CallIds |-> IdleCall]
    /\ netCalls = 0
    /\ lastOk = NoLastOk
    /\ cleared = {}
    /\ invalidated = FALSE
IdleTable == tValues = <<>> /\ tOut = NotRun
IdleMap ==
    /\ InitMap
    /\ showDistrictInfo = TRUE
IdleBoot ==
    boot = [pc |-> "idle", cfg |-> [stats |-> FALSE, districts |-> FALSE, transport |-> FALSE],
            result |-> "none", statsFailed |-> FALSE]
IdlePeer == peer = [loaded |-> JNull, region |-> 0, shown |-> EmptyState]
IdleEnv ==
    /\ envLoader = [variables |-> NoVariables, loaded |-> FALSE]
    /\ envSource = [variant |-> "env", config |-> JNull]
    /\ loads = [l \in LoadIds |-> IdleLoad]
    /\ lastLoad = 0
IdleFactory ==
    factory = [pc |-> "idle", options |-> [show |-> FALSE, hide |-> FALSE],
               result |-> "none", log |-> <<>>]
IdleZoomUi ==
    zoomUi = [zoom |-> MinZoom, opacity |-> "", text |-> SInstruction, timer |-> "none",
              wheels |-> 0]
IdleDebounce ==
    debounced = [wait |-> 0, now |-> 0, due |-> NoTimeout, args |-> "", calls |-> <<>>,
                 invoked |-> <<>>]
IdleOther ==
    /\ args = [c \in CallIds |-> ""]
    /\ IdlePeer
    /\ IdleEnv
    /\ IdleFactory
    /\ IdleZoomUi
    /\ IdleDebounce

\* The sheet cache under overlapping calls, invalidation and passing time
CacheInit == InitCache /\ IdleTable /\ IdleMap /\ IdleBoot /\ IdleOther
CacheNext ==
    \/ \E c \in CallIds : FetchStart(c) /\ UNCHANGED <<tableVars, mapVars, bootVars, otherVars>>
    \/ \E c \in CallIds : EnvLoaded(c) /\ UNCHANGED <<tableVars, mapVars, bootVars, otherVars>>
    \/ \E c \in CallIds : FetchSettled(c) /\ UNCHANGED <<tableVars, mapVars, bootVars, otherVars>>
    \/ \E c \in CallIds : JsonParsed(c) /\ UNCHANGED <<tableVars, mapVars, bootVars, otherVars>>
    \/ ClearCache /\ UNCHANGED <<invalidated, tableVars, mapVars, bootVars, otherVars>>
    \/ Tick /\ UNCHANGED <<tableVars, mapVars, bootVars, otherVars>>
SpecCache == CacheInit /\ [][CacheNext]_vars

\* The same, with the history of clearCache kept: invalidated is set when
\* clearCache returns and taken by the next fetchAndProcess call
RefreshNext ==
    \/ \E c \in CallIds : FetchStart(c) /\ UNCHANGED <<tableVars, mapVars, bootVars, otherVars>>
    \/ \E c \in CallIds : EnvLoaded(c) /\ UNCHANGED <<tableVars, mapVars, bootVars, otherVars>>
    \/ \E c \in CallIds : FetchSettled(c) /\ UNCHANGED <<tableVars, mapVars, bootVars, otherVars>>
    \/ \E c \in CallIds : JsonParsed(c) /\ UNCHANGED <<tableVars, mapVars, bootVars, otherVars>>
    \/ ClearCache /\ invalidated' = TRUE /\ UNCHANGED <<tableVars, mapVars, bootVars, otherVars>>
    \/ Tick /\ UNCHANGED <<tableVars, mapVars, bootVars, otherVars>>
SpecRefresh == CacheInit /\ [][RefreshNext]_vars

\* The sheet cache under calls for two datasets
KeysNext ==
    \/ \E c \in CallIds, k \in SheetKeys :
         FetchAndProcess(c, k) /\ UNCHANGED <<tableVars, mapVars, bootVars, peer, envVars, factory, zoomUi, debounced>>
    \/ \E c \in CallIds : EnvLoaded(c) /\ UNCHANGED <<tableVars, mapVars, bootVars, otherVars>>
    \/ \E c \in CallIds : FetchSettledFor(c) /\ UNCHANGED <<tableVars, mapVars, bootVars, peer, envVars, factory, zoomUi, debounced>>
    \/ \E c \in CallIds : JsonParsed(c) /\ UNCHANGED <<tableVars, mapVars, bootVars, otherVars>>
    \/ ClearCache /\ UNCHANGED <<invalidated, tableVars, mapVars, bootVars, otherVars>>
    \/ Tick /\ UNCHANGED <<tableVars, mapVars, bootVars, otherVars>>
SpecKeys == CacheInit /\ [][KeysNext]_vars

\* processSheetData over the bounded tables
TransformInit == InitTransform /\ IdleCache /\ IdleMap /\ IdleBoot /\ IdleOther
TransformNext == Transform /\ UNCHANGED <<cacheVars, mapVars, bootVars, otherVars>>
SpecTransform == TransformInit /\ [][TransformNext]_vars

\* The statistics index over the bounded tables
StatsInit == InitStats /\ IdleCache /\ IdleMap /\ IdleBoot /\ IdleOther
StatsNext == BuildIndex /\ UNCHANGED <<cacheVars, mapVars, bootVars, otherVars>>
SpecStats == StatsInit /\ [][StatsNext]_vars

\* The transportation layer's features over the bounded collections
OverlayInit == InitOverlay /\ IdleCache /\ IdleMap /\ IdleBoot /\ IdleOther
OverlayNext == BuildTransportation /\ UNCHANGED <<cacheVars, mapVars, bootVars, otherVars>>
SpecOverlay == OverlayInit /\ [][OverlayNext]_vars

\* The map under loads, toggles and pointer events in any order
MapInit == InitMap /\ IdleCache /\ IdleTable /\ IdleBoot /\ IdleOther
MapNext ==
    \/ LoadDistrictBoundaries /\ UNCHANGED <<cacheVars, tableVars, bootVars, otherVars>>
    \/ LoadTransportationRoutes /\ UNCHANGED <<cacheVars, tableVars, bootVars, otherVars>>
    \/ LoadDistrictStats /\ UNCHANGED <<cacheVars, tableVars, bootVars, otherVars>>
    \/ ToggleTransportation /\ UNCHANGED <<cacheVars, tableVars, bootVars, otherVars>>
    \/ \E f \in Features : HighlightDistrict(f) /\ UNCHANGED <<cacheVars, tableVars, bootVars, otherVars>>
    \/ \E f \in Features : ResetDistrictHighlight(f) /\ UNCHANGED <<cacheVars, tableVars, bootVars, otherVars>>
    \/ \E f \in Features : ZoomToDistrict(f) /\ UNCHANGED <<cacheVars, tableVars, bootVars, otherVars>>
SpecMap == MapInit /\ [][MapNext]_vars

\* The loaded map under toggles and pointer events in any order
EventsInit == InitLoaded /\ IdleCache /\ IdleTable /\ IdleBoot /\ IdleOther
EventsNext ==
    \/ ToggleTransportation /\ UNCHANGED <<cacheVars, tableVars, bootVars, otherVars>>
    \/ \E f \in Features : HighlightDistrict(f) /\ UNCHANGED <<cacheVars, tableVars, bootVars, otherVars>>
    \/ \E f \in Features : ResetDistrictHighlight(f) /\ UNCHANGED <<cacheVars, tableVars, bootVars, otherVars>>
    \/ \E f \in Features : ZoomToDistrict(f) /\ UNCHANGED <<cacheVars, tableVars, bootVars, otherVars>>
SpecEvents == EventsInit /\ [][EventsNext]_vars

\* The loaded map whose statistics are loaded again, under pointer events
ReloadNext ==
    \/ \E r \in StatsResponses :
         LoadDistrictStatsFrom(r) /\ UNCHANGED <<cacheVars, tableVars, bootVars, otherVars>>
    \/ \E f \in Features : HighlightDistrict(f) /\ UNCHANGED <<cacheVars, tableVars, bootVars, otherVars>>
    \/ \E f \in Features : ResetDistrictHighlight(f) /\ UNCHANGED <<cacheVars, tableVars, bootVars, otherVars>>
    \/ \E f \in Features : ZoomToDistrict(f) /\ UNCHANGED <<cacheVars, tableVars, bootVars, otherVars>>
SpecReload == EventsInit /\ [][ReloadNext]_vars

\* Two maps on one page: statistics loads and hovers of either
PeersNext ==
    \/ LoadDistrictStats /\ UNCHANGED <<cacheVars, tableVars, bootVars, otherVars>>
    \/ PeerLoadDistrictStats /\ UNCHANGED <<cacheVars, tableVars, bootVars, args, envVars, factory, zoomUi, debounced>>
    \/ \E f \in Features :
         HighlightDistrict(f) /\ UNCHANGED <<cacheVars, tableVars, bootVars, otherVars>>
    \/ \E f \in Features :
         ResetDistrictHighlight(f) /\ UNCHANGED <<cacheVars, tableVars, bootVars, otherVars>>
    \/ \E r \in Regions :
         PeerHighlightDistrict(r) /\ UNCHANGED <<cacheVars, tableVars, bootVars, args, envVars, factory, zoomUi, debounced>>
SpecPeers == EventsInit /\ [][PeersNext]_vars

\* EnvLoader.load under overlapping calls and every outcome of its sources
LoaderInit ==
    /\ InitEnv /\ IdleCache /\ IdleTable /\ IdleMap /\ IdleBoot
    /\ args = [c \in CallIds |-> ""] /\ IdlePeer /\ IdleFactory /\ IdleZoomUi
    /\ IdleDebounce
LoaderNext ==
    \/ \E l \in LoadIds :
         Load(l) /\ UNCHANGED <<cacheVars, tableVars, mapVars, bootVars, args, peer, factory, zoomUi, debounced>>
    \/ \E l \in LoadIds :
         ConfigSettled(l) /\ UNCHANGED <<cacheVars, tableVars, mapVars, bootVars, args, peer, factory, zoomUi, debounced>>
    \/ \E l \in LoadIds :
         EnvSettled(l) /\ UNCHANGED <<cacheVars, tableVars, mapVars, bootVars, args, peer, factory, zoomUi, debounced>>
SpecLoader == LoaderInit /\ [][LoaderNext]_vars

\* The config function over the requests and environments tried
ConfigInit == InitConfig /\ IdleCache /\ IdleMap /\ IdleBoot /\ IdleOther
ConfigNext == ServeConfig /\ UNCHANGED <<cacheVars, mapVars, bootVars, otherVars>>
SpecConfig == ConfigInit /\ [][ConfigNext]_vars

\* createCityMap on a new page, every load succeeding or failing
FactoryInit ==
    /\ InitMap /\ InitBoot /\ InitFactory /\ IdleCache /\ IdleTable
    /\ args = [c \in CallIds |-> ""] /\ IdlePeer /\ IdleEnv /\ IdleZoomUi
    /\ IdleDebounce
FactoryNext ==
    \/ CreateCityMap /\ UNCHANGED <<cacheVars, tableVars, args, peer, envVars, zoomUi, debounced>>
    \/ BootStatsSettled /\ FactoryFollows
         /\ UNCHANGED <<cacheVars, tableVars, args, peer, envVars, zoomUi, debounced>>
    \/ BootDistrictsSettled /\ FactoryFollows
         /\ UNCHANGED <<cacheVars, tableVars, args, peer, envVars, zoomUi, debounced>>
    \/ BootTransportSettled /\ FactoryFollows
         /\ UNCHANGED <<cacheVars, tableVars, args, peer, envVars, zoomUi, debounced>>
SpecFactory == FactoryInit /\ [][FactoryNext]_vars

\* The instruction overlay under wheel events and its timeouts
ScrollInit ==
    /\ InitZoomUi /\ IdleCache /\ IdleTable /\ IdleMap /\ IdleBoot
    /\ args = [c \in CallIds |-> ""] /\ IdlePeer /\ IdleEnv /\ IdleFactory
    /\ IdleDebounce
ScrollTimer ==
    ZoomTimer /\ UNCHANGED <<cacheVars, tableVars, mapVars, bootVars, args, peer, envVars,
                              factory, debounced>>
ScrollNext ==
    \/ \E ctrlKey \in BOOLEAN, deltaY \in {-1, 1} :
         Wheel(ctrlKey, deltaY)
         /\ UNCHANGED <<cacheVars, tableVars, mapVars, bootVars, args, peer, envVars, factory,
                        debounced>>
    \/ ScrollTimer
SpecScroll == ScrollInit /\ [][ScrollNext]_vars
\* The browser runs every timeout that stays pending
SpecScrollFair == SpecScroll /\ WF_vars(ScrollTimer)

\* A debounced function under calls and passing time
DebounceInit ==
    /\ InitDebounce /\ IdleCache /\ IdleTable /\ IdleMap /\ IdleBoot
    /\ args = [c \in CallIds |-> ""] /\ IdlePeer /\ IdleEnv /\ IdleFactory /\ IdleZoomUi
DebounceTimeout ==
    Later /\ UNCHANGED <<cacheVars, tableVars, mapVars, bootVars, args, peer, envVars,
                          factory, zoomUi>>
DebounceClock ==
    TimePasses /\ UNCHANGED <<cacheVars, tableVars, mapVars, bootVars, args, peer, envVars,
                               factory, zoomUi>>
DebounceNext ==
    \/ \E a \in CallArgs :
         ExecutedFunction(a)
         /\ UNCHANGED <<cacheVars, tableVars, mapVars, bootVars, args, peer, envVars, factory,
                        zoomUi>>
    \/ DebounceTimeout
    \/ DebounceClock
SpecDebounce == DebounceInit /\ [][DebounceNext]_vars
\* The clock advances and the browser runs the timeout when it is due
SpecDebounceFair == SpecDebounce /\ WF_vars(DebounceTimeout) /\ WF_vars(DebounceClock)

\* initializeWithData on a new map, with toggles and pointer events arriving
\* while its loads are pending and afterwards
BootInit == InitMap /\ InitBoot /\ IdleCache /\ IdleTable /\ IdleOther
BootNext ==
    \/ InitializeWithData /\ UNCHANGED <<cacheVars, tableVars, otherVars>>
    \/ BootStatsSettled /\ UNCHANGED <<cacheVars, tableVars, otherVars>>
    \/ BootDistrictsSettled /\ UNCHANGED <<cacheVars, tableVars, otherVars>>
    \/ BootTransportSettled /\ UNCHANGED <<cacheVars, tableVars, otherVars>>
    \/ ToggleTransportation /\ UNCHANGED <<cacheVars, tableVars, bootVars, otherVars>>
    \/ \E f \in Features :
         HighlightDistrict(f) /\ UNCHANGED <<cacheVars, tableVars, bootVars, otherVars>>
    \/ \E f \in Features :
         ResetDistrictHighlight(f) /\ UNCHANGED <<cacheVars, tableVars, bootVars, otherVars>>
    \/ \E f \in Features :
         ZoomToDistrict(f) /\ UNCHANGED <<cacheVars, tableVars, bootVars, otherVars>>
SpecBoot == BootInit /\ [][BootNext]_vars

-----------------------------------------------------------------------------
(* Claims about the sheet cache, checked under SpecCache *)

(***************************************************************************)
(* C1. Cache idempotence: a call invoked less than the TTL after the last  *)
(* successful call completed, with no clearCache in between, performs no   *)
(* network retrieval and returns the data that call returned.              *)
(***************************************************************************)
C1_CacheIdempotence ==
    \A c \in CallIds :
        (calls[c].age >= 0 /\ calls[c].age < CacheDuration)
            => /\ calls[c].pc = "done"
               /\ ~calls[c].usedNet
               /\ calls[c].result = calls[c].prior

(***************************************************************************)
(* C2. TTL validity: with an entry written at fetchedAt (0 included), a    *)
(* call invoked at time now is answered from the cache, with that entry's  *)
(* data and no network retrieval, exactly when now - fetchedAt < ttl.      *)
(***************************************************************************)
C2_TtlValidity ==
    \A c \in CallIds :
        calls[c].age >= 0
            => /\ calls[c].hit <=> calls[c].age < CacheDuration
               /\ calls[c].hit => ~calls[c].usedNet /\ calls[c].result = calls[c].prior
               /\ (~calls[c].hit /\ calls[c].pc = "done" /\ envKey = "key")
                     => calls[c].usedNet

(***************************************************************************)
(* C3. A fetch that was in flight when clearCache ran does not write the   *)
(* cache when it completes: whatever the cache holds was written by a call *)
(* that no clearCache found in flight.                                     *)
(***************************************************************************)
C3_StaleResponseDiscarded ==
    /\ \A c \in cleared : ~calls[c].wrote
    /\ Truthy(cache.data) => lastOk.by \notin cleared

(***************************************************************************)
(* C4. A call whose retrieval fails (rejected request or non-success       *)
(* status) settles with the error, not with data, and none of its steps    *)
(* changed the cache.                                                      *)
(***************************************************************************)
C4_FailureLeavesCache ==
    \A c \in CallIds :
        calls[c].netFailed
            => /\ calls[c].result.t = "error"
               /\ ~calls[c].wrote

\* A refresh failed while the cache still held an expired entry.
C4_Witness ==
    \E c \in CallIds :
        /\ calls[c].netFailed
        /\ Truthy(cache.data)
        /\ cache.timestamp.t = "int"
        /\ clock - cache.timestamp.i >= CacheDuration
        /\ calls[c].age >= CacheDuration

-----------------------------------------------------------------------------
(* Claims about processSheetData, checked under SpecTransform *)

\* The cell of data row i (1-based) in the column the header names h; empty
\* when the header has no such column or the row ends before it
CellOf(values, i, h) ==
    LET header == values[1]
        row    == values[i + 1]
    IN  IF \E k \in 1..Len(header) : header[k] = h
        THEN OrEmpty(At(row, (CHOOSE k \in 1..Len(header) : header[k] = h) - 1))
        ELSE <<>>

\* The whole text, trimmed, is one finite decimal number
IsFiniteNumberText(s) ==
    LET t == Trim(s)
    IN  /\ t # <<>>
        /\ ScanDecimal(t).n = Len(t)
        /\ ScanDecimal(t).v.t = "num"

\* Exactly two comma-separated finite numbers
IsCoordinatePair(s) ==
    LET tokens == SplitComma(s)
    IN  /\ Len(tokens) = 2
        /\ IsFiniteNumberText(tokens[1])
        /\ IsFiniteNumberText(tokens[2])

\* Row i is valid in the sense of the row-validation rule
IsValidRow(values, i) ==
    /\ CellOf(values, i, SName) # <<>>
    /\ CellOf(values, i, SWerbetraeger) # <<>>
    /\ IsCoordinatePair(CellOf(values, i, SKoordinaten))

\* How many locations of the result carry this name and category
LocationCount(data, name, category) ==
    Cardinality({<<k, j>> \in (1..Len(data)) \X (1..MaxRows + 1) :
                    /\ j <= Len(data[k].features)
                    /\ data[k].key = category
                    /\ data[k].features[j].Name = name
                    /\ data[k].features[j].Category = category})

ScenarioA == <<ShortHeader, <<SSpot1, SCoordA, SBillboard>>>>

(***************************************************************************)
(* C5. Scenario A: the table with header [Name, Koordinaten, Werbeträger]  *)
(* and the row ["Spot1", "52.5,13.4", "Billboard"] yields a collection     *)
(* whose only key is "Billboard", with exactly one location, named "Spot1" *)
(* at (52.5, 13.4).                                                        *)
(***************************************************************************)
C5_ScenarioA ==
    (tValues = ScenarioA /\ tOut # NotRun)
        => /\ tOut.t = "obj"
           /\ Len(tOut.o) = 1
           /\ tOut.o[1].key = SBillboard
           /\ Len(tOut.o[1].features) = 1
           /\ tOut.o[1].features[1].Name = SSpot1
           /\ tOut.o[1].features[1].coordinates = <<Num(525, -1), Num(134, -1)>>

(***************************************************************************)
(* C6. Row validation: a row is in the result of processSheetData if and   *)
(* only if its name and category are non-blank and its coordinate cell is  *)
(* exactly two comma-separated finite numbers, whatever the other rows     *)
(* are: for each name and category the result holds as many locations as   *)
(* the table has valid rows with them.                                     *)
(***************************************************************************)
C6_RowValidation ==
    tOut # NotRun
        => /\ tOut.t = "obj"
           /\ \A i \in 1..(Len(tValues) - 1) :
                LET name     == CellOf(tValues, i, SName)
                    category == CellOf(tValues, i, SWerbetraeger)
                IN  LocationCount(tOut.o, name, category)
                      = Cardinality({j \in 1..(Len(tValues) - 1) :
                                        /\ IsValidRow(tValues, j)
                                        /\ CellOf(tValues, j, SName) = name
                                        /\ CellOf(tValues, j, SWerbetraeger) = category})
           /\ \A k \in 1..Len(tOut.o) : \A j \in 1..Len(tOut.o[k].features) :
                \E i \in 1..(Len(tValues) - 1) :
                    /\ IsValidRow(tValues, i)
                    /\ CellOf(tValues, i, SName) = tOut.o[k].features[j].Name
                    /\ CellOf(tValues, i, SWerbetraeger) = tOut.o[k].key

-----------------------------------------------------------------------------
(* Claims about the statistics index, checked under SpecStats *)

\* The cell of row in the column whose trimmed, lower-cased header is k; empty
\* when there is no such column or the row ends before it
StatsCellOf(values, row, k) ==
    LET header == values[1]
    IN  IF \E c \in 1..Len(header) : ToLowerCase(Trim(header[c])) = k
        THEN OrEmpty(At(row, (CHOOSE c \in 1..Len(header) :
                                 ToLowerCase(Trim(header[c])) = k) - 1))
        ELSE <<>>

\* The last data row whose identifier is id
SourceRow(values, id) ==
    LET i == CHOOSE j \in 2..Len(values) :
                 /\ StatsCellOf(values, values[j], SCartodbId) = id
                 /\ \A n \in (j + 1)..Len(values) :
                        StatsCellOf(values, values[n], SCartodbId) # id
    IN  values[i]

(***************************************************************************)
(* C7. Join correctness: for every id in the index built by                *)
(* loadDistrictStats, population, area and adCount are finite numbers,     *)
(* equal to 0 when the source cell is blank, missing or not a number, and  *)
(* no field of the entry is undefined.                                     *)
(***************************************************************************)
C7_JoinCorrectness ==
    tOut.t = "obj"
        => \A id \in DOMAIN tOut.o :
             LET e   == tOut.o[id]
                 row == SourceRow(tValues, id)
                 ok(v, cell) ==
                     /\ IsFinite(v)
                     /\ ~IsFiniteNumberText(cell) => v = Num(0, 0)
             IN  /\ ok(e.population, StatsCellOf(tValues, row, SPopulationLc))
                 /\ ok(e.area, StatsCellOf(tValues, row, SArea))
                 /\ ok(e.adCount, StatsCellOf(tValues, row, SAdcountLc))
                 /\ e.name # Undefined
                 /\ e.notes # Undefined

-----------------------------------------------------------------------------
(* Claims about the interaction handlers: C8 and C10 are checked under      *)
(* SpecMap, C9 under SpecEvents                                            *)

\* The outline opacity of feature f after the step
OpacityAfter(f) == districtLayers'[f[1]][f[2]].opacity

\* The step turns the overlay on
TurnsOverlayOn == ~state.isTransportationVisible /\ state'.isTransportationVisible

(***************************************************************************)
(* C8. Scenario C: when toggleTransportation turns the overlay on, every   *)
(* hovered region of the district layer keeps outline opacity 1.0 and      *)
(* every other region of it gets 0.2; and a region that becomes hovered    *)
(* while the overlay is visible is shown at opacity 1.0.                   *)
(***************************************************************************)
C8_ScenarioC ==
    [][/\ TurnsOverlayOn
            => \A r \in Regions :
                 OpacityAfter(<<curDistricts, r>>)
                    = IF <<curDistricts, r>> \in hovered THEN Num(1, 0) ELSE Num(2, -1)
       /\ \A f \in Features :
            (state.isTransportationVisible /\ f \in hovered' /\ f \notin hovered)
                => OpacityAfter(f) = Num(1, 0)]_vars

\* The interaction state is well defined
StateDefined ==
    /\ DOMAIN state = {"isTransportationVisible", "currentDistrict"}
    /\ state.isTransportationVisible \in BOOLEAN
    /\ state.currentDistrict \in {JNull} \cup {JInt(r) : r \in Regions}

(***************************************************************************)
(* C9. State totality: through every sequence of hover, leave, click and   *)
(* toggle events the interaction state stays well defined (currentDistrict *)
(* is null or a region id, isTransportationVisible is a boolean), and      *)
(* state.currentDistrict changes in no step other than a click.            *)
(***************************************************************************)
C9_StateTotality ==
    /\ []StateDefined
    /\ [][state'.currentDistrict # state.currentDistrict
            => \E f \in Features : ZoomToDistrict(f)]_vars

\* Hover, toggle and click have all happened, and the state is still defined
C9_Witness ==
    /\ hovered # {}
    /\ state.isTransportationVisible
    /\ viewport # 0
    /\ StateDefined

(***************************************************************************)
(* C10. A click on a rendered region enters Selected(id): right after      *)
(* zoomToDistrict, state.currentDistrict is the region's id, the viewport  *)
(* has been fitted to the region's bounds, and the detail panel is open.   *)
(***************************************************************************)
C10_ClickSelects ==
    [][\A f \in Features :
         ZoomToDistrict(f)
            => /\ state'.currentDistrict = JInt(f[2])
               /\ viewport' = f[2]
               /\ panel'.visible]_vars

(***************************************************************************)
(* C11. toggleTransportation is total: in every reachable state, also      *)
(* before a district layer or a transportation layer is loaded, each call  *)
(* negates state.isTransportationVisible, so the flag is true exactly      *)
(* after an odd number of calls.                                           *)
(***************************************************************************)
C11_ToggleTotal == state.isTransportationVisible = togglesOdd

(***************************************************************************)
(* C12. A failed statistics load does not block region rendering: when     *)
(* initializeWithData has settled with statistics and districts both       *)
(* configured and loadDistrictStats failed, the district layer is loaded   *)
(* and on the map, and the panel shows its empty state.                    *)
(***************************************************************************)
C12_StatsFailureDegrades ==
    (boot.pc = "done" /\ boot.cfg.stats /\ boot.cfg.districts /\ boot.statsFailed)
        => /\ curDistricts # 0
           /\ curDistricts \in onMap
           /\ panel.exists => panel.shown = EmptyState

(***************************************************************************)
(* C13. No interaction event crashes: whatever features.showDistrictInfo   *)
(* the constructor was given, the mouseover, mouseout and click handlers   *)
(* of a rendered region complete without raising an error.                 *)
(***************************************************************************)
C13_NoHandlerRaises == ~lastError

(***************************************************************************)
(* C14. With the access key absent or the placeholder, fetchAndProcess     *)
(* sends no request to the sheets endpoint and reports no failure to its   *)
(* caller: the call does not reject.                                       *)
(***************************************************************************)
C14_NoKeyDegrades ==
    ~HasSheetsUrl
        => /\ netCalls = 0
           /\ \A c \in CallIds : calls[c].result.t # "error"

(***************************************************************************)
(* C15. A successful retrieval whose table has fewer than 2 rows (empty or *)
(* header only) fails instead of yielding a result; here for the           *)
(* statistics table of loadDistrictStats: no index is built from it.       *)
(***************************************************************************)
C15_EmptyDatasetFails ==
    (tOut # NotRun /\ Len(tValues) < 2) => tOut.t = "throw"

(***************************************************************************)
(* C16. clearCache clears the entry unconditionally: the first             *)
(* fetchAndProcess call made after clearCache returned is not answered     *)
(* from the cache but performs a network retrieval (a key being            *)
(* configured), however recently the entry had been written.               *)
(* Checked under SpecRefresh.                                              *)
(***************************************************************************)
C16_ClearForcesRefresh ==
    \A c \in CallIds :
        (calls[c].afterClear /\ HasSheetsUrl)
            => /\ ~calls[c].hit
               /\ calls[c].pc = "done" => calls[c].usedNet

(***************************************************************************)
(* C17. Row-level failures never fail the batch: whatever the header and   *)
(* the data rows, processSheetData returns a collection and does not raise.*)
(***************************************************************************)
C17_BatchNeverFails ==
    tOut # NotRun => tOut.t = "obj"

\* The keys of a collection
KeySet(data) == {data[k].key : k \in 1..Len(data)}

(***************************************************************************)
(* C18. The key set of the collection processSheetData returns is exactly  *)
(* the set of the category values of the valid rows of its input, and no   *)
(* key is without a location.                                              *)
(***************************************************************************)
C18_KeySet ==
    (tOut # NotRun /\ tOut.t = "obj")
        => /\ KeySet(tOut.o)
                = {CellOf(tValues, i, SWerbetraeger) :
                     i \in {j \in 1..(Len(tValues) - 1) : IsValidRow(tValues, j)}}
           /\ \A k \in 1..Len(tOut.o) : tOut.o[k].features # <<>>

\* The first data row that is valid and has this category (0: none)
FirstValidRow(values, category) ==
    LET with == {i \in 1..(Len(values) - 1) :
                    IsValidRow(values, i) /\ CellOf(values, i, SWerbetraeger) = category}
    IN  IF with = {} THEN 0 ELSE CHOOSE i \in with : \A j \in with : i <= j

(***************************************************************************)
(* C19. Ordering of the transform output: the categories are enumerated in *)
(* the order of their first occurrence among the valid rows, and within a  *)
(* category the locations are in the order of their source rows.           *)
(***************************************************************************)
C19_Ordering ==
    (tOut # NotRun /\ tOut.t = "obj")
        => /\ \A a, b \in 1..Len(tOut.o) :
                LET keys == OwnKeys(tOut.o)
                    rowA == FirstValidRow(tValues, keys[a])
                    rowB == FirstValidRow(tValues, keys[b])
                IN  (a < b /\ rowA # 0 /\ rowB # 0) => rowA < rowB
           /\ \A k \in 1..Len(tOut.o) :
                \A a, b \in 1..Len(tOut.o[k].features) :
                    a < b
                      => \E i, j \in 1..(Len(tValues) - 1) :
                            /\ i < j
                            /\ CellOf(tValues, i, SWerbetraeger) = tOut.o[k].key
                            /\ CellOf(tValues, j, SWerbetraeger) = tOut.o[k].key
                            /\ CellOf(tValues, i, SName) = tOut.o[k].features[a].Name
                            /\ CellOf(tValues, j, SName) = tOut.o[k].features[b].Name

-----------------------------------------------------------------------------
(* Claims about the statistics index, checked under SpecStats *)

\* The identifiers of the data rows, the empty cell excluded
RowIds(values) ==
    {StatsCellOf(values, values[j], SCartodbId) : j \in 2..Len(values)} \ {<<>>}

(***************************************************************************)
(* C20. The index built by loadDistrictStats has exactly one entry per     *)
(* distinct non-empty identifier of the data rows, rows whose identifier   *)
(* is empty or missing contribute nothing, and the entry of an identifier  *)
(* holds the values of the last row that has it.                           *)
(***************************************************************************)
C20_LastRowWins ==
    (tOut # NotRun /\ tOut.t = "obj")
        => /\ DOMAIN tOut.o = RowIds(tValues)
           /\ \A id \in DOMAIN tOut.o :
                tOut.o[id] = StatsEntry(tValues[1], SourceRow(tValues, id))

\* An index built from two rows with the same identifier and different values
C20_Witness ==
    /\ tOut # NotRun
    /\ tOut.t = "obj"
    /\ Len(tValues) = 3
    /\ StatsCellOf(tValues, tValues[2], SCartodbId) = SOne
    /\ StatsCellOf(tValues, tValues[3], SCartodbId) = SOne
    /\ StatsEntry(tValues[1], tValues[2]) # StatsEntry(tValues[1], tValues[3])
    /\ DOMAIN tOut.o = {SOne}

-----------------------------------------------------------------------------
(* Claims about the installed statistics index, checked under SpecReload *)

(***************************************************************************)
(* C21. The statistics index is rebuilt wholesale: a loadDistrictStats     *)
(* that succeeds leaves an index whose ids are exactly the identifiers of  *)
(* the table it loaded, whatever was installed before, and one that fails  *)
(* leaves the installed index as it was.                                   *)
(***************************************************************************)
C21_WholesaleRebuild ==
    [][\A r \in StatsResponses :
         LoadDistrictStatsFrom(r)
            => IF r.kind = "ok" /\ Truthy(r.values) /\ r.values.o # <<>>
               THEN /\ statsById'.t = "obj"
                    /\ DOMAIN statsById'.o = RowIds(r.values.o)
               ELSE statsById' = statsById]_vars

\* The panel still shows the entry of region 1 read from an earlier index,
\* and the index now installed comes from a table without that id
C21_Witness ==
    /\ panel.shown = UpdateContent(StatsIndexOf[StatsSheet1].o[SOne])
    /\ statsById = StatsIndexOf[StatsSheet2]

-----------------------------------------------------------------------------
(* Claims about layers, styles and the panel: C22, C24 under SpecMap *)

(***************************************************************************)
(* C22. Overlay/outline coupling: in every state reached by district       *)
(* loads, overlay loads, toggles and hover events, every region on the map *)
(* that is not hovered has outline opacity 0.2 if                          *)
(* state.isTransportationVisible and 1.0 if not.                           *)
(***************************************************************************)
C22_OutlineCoupling ==
    \A f \in Features :
        f \notin hovered
            => districtLayers[f[1]][f[2]].opacity
                 = IF state.isTransportationVisible THEN Num(2, -1) ELSE Num(1, 0)

\* The two styles of a region's outline, after the step
HeavyAfter(f) ==
    /\ districtLayers'[f[1]][f[2]].weight = 5
    /\ districtLayers'[f[1]][f[2]].dashArray = <<>>
    /\ districtLayers'[f[1]][f[2]].fillOpacity = Num(4, -1)
ThinAfter(f) ==
    /\ districtLayers'[f[1]][f[2]].weight = 2
    /\ districtLayers'[f[1]][f[2]].dashArray = <<"1", "0">>
    /\ districtLayers'[f[1]][f[2]].fillOpacity = Num(0, 0)

(***************************************************************************)
(* C23. Region style is a function of the interaction state: after a       *)
(* pointerEnter on a region, also one that arrives before the pointerLeave *)
(* of another region, that region, now the hovered one, has the heavy      *)
(* solid stroke with fill and every other region the thin dashed fill-less *)
(* stroke; after a pointerLeave the region it left has the thin one.       *)
(* Checked under SpecEvents.                                               *)
(***************************************************************************)
C23_StyleFollowsHover ==
    [][\A g \in Features :
         /\ HighlightDistrict(g)
               => /\ HeavyAfter(g)
                  /\ \A f \in Features \ {g} : ThinAfter(f)
         /\ ResetDistrictHighlight(g) => ThinAfter(g)]_vars

(***************************************************************************)
(* C24. loadDistrictBoundaries replaces the current region layer: after    *)
(* any number of successful calls exactly one district layer is on the map *)
(* and receives events, the one the most recent call built.                *)
(***************************************************************************)
C24_OneRegionLayer ==
    /\ onMap = IF curDistricts = 0 THEN {} ELSE {curDistricts}
    /\ Features = {<<curDistricts, r>> : r \in IF curDistricts = 0 THEN {} ELSE Regions}

-----------------------------------------------------------------------------
(* Claims about the transportation layer's features, checked under          *)
(* SpecOverlay                                                              *)

\* The places in the collection of the features a layer holds
PlacesOf(features) == {features[i].n : i \in 1..Len(features)}

(***************************************************************************)
(* C25. Overlay filtering: the layer loadTransportationRoutes builds holds *)
(* exactly the features whose route_name is in routesToDisplay, each once, *)
(* when that list is non-empty, and every feature of the collection when   *)
(* it is empty.                                                            *)
(***************************************************************************)
C25_OverlayFiltering ==
    tOut # NotRun
        => /\ Len(tOut.o) = Cardinality(PlacesOf(tOut.o))
           /\ PlacesOf(tOut.o)
                = IF tValues.routes = <<>>
                  THEN 1..Len(tValues.features)
                  ELSE {i \in 1..Len(tValues.features) :
                          \E k \in 1..Len(tValues.routes) :
                              tValues.routes[k] = tValues.features[i].route_name}
           /\ \A i \in 1..Len(tOut.o) : tOut.o[i] = tValues.features[tOut.o[i].n]

\* A non-empty list that keeps one feature and drops two, one of them without
\* a route_name
C25_Witness ==
    /\ tOut # NotRun
    /\ tValues.routes = <<SRouteU2>>
    /\ Len(tValues.features) = 3
    /\ tValues.features[1].route_name = SRouteS1
    /\ tValues.features[2].route_name = SRouteU2
    /\ tValues.features[3].route_name = Undefined
    /\ PlacesOf(tOut.o) = {2}

\* lookup(id) in the installed index is absent
LookupAbsent(id) ==
    \/ statsById = JNull
    \/ id = 0
    \/ RegionKey(id) \notin DOMAIN statsById.o

(***************************************************************************)
(* C26. Lookup miss is non-fatal: whenever the panel is updated for a      *)
(* region that has no entry in the installed index, before any index is    *)
(* installed, or with no id at all, the panel shows the empty state and    *)
(* the update does not raise. Checked under SpecReload.                    *)
(***************************************************************************)
C26_LookupMiss ==
    /\ [](panel.exists => PanelUpdate(0) = EmptyState)
    /\ [][\A f \in Features :
            (HighlightDistrict(f) /\ panel.exists /\ LookupAbsent(f[2]))
                => /\ panel'.shown = EmptyState
                   /\ ~lastError']_vars

\* A region without an entry in the installed index is hovered, the panel is
\* open and shows the empty state
C26_Witness ==
    /\ panel.exists
    /\ panel.visible
    /\ panel.shown = EmptyState
    /\ statsById # JNull
    /\ DOMAIN statsById.o # {}
    /\ \E f \in hovered : LookupAbsent(f[2])

\* What the panel is to show for region id: the entry of the installed index,
\* or the empty state
LookupContent(id) ==
    IF LookupAbsent(id) THEN EmptyState ELSE UpdateContent(statsById.o[RegionKey(id)])

(***************************************************************************)
(* C27. Panel consistency: after a pointerEnter or a click on a region,    *)
(* if the panel is open it shows the lookup of that region in the          *)
(* installed index, or the empty state if there is none; a click on B      *)
(* without a pointerEnter on B before does not leave the panel open with   *)
(* another region's data. Checked under SpecEvents.                        *)
(***************************************************************************)
C27_PanelConsistency ==
    [][\A f \in Features :
         ((HighlightDistrict(f) \/ ZoomToDistrict(f)) /\ panel.exists /\ panel'.visible)
             => panel'.shown = LookupContent(f[2])]_vars

-----------------------------------------------------------------------------
(* Claims about initializeWithData under interaction events, checked under   *)
(* SpecBoot                                                                 *)

\* A load of initializeWithData is awaited
LoadPending == boot.pc \in {"stats", "districts", "transport"}

\* The awaited load resolves in this step
LoadResolves(stage) == boot.pc = stage /\ boot'.pc # stage /\ boot'.result # "error"

(***************************************************************************)
(* C28. Interaction events that arrive while a retrieval is pending are    *)
(* tolerated: no handler run while a load is awaited raises, and when the  *)
(* load resolves its result is installed as if no event had occurred: the  *)
(* new district layer is current, on the map and in the default style, the *)
(* new transportation layer is current, the new index is installed, and    *)
(* nothing else changes.                                                   *)
(***************************************************************************)
C28_EventsWhilePending ==
    /\ [](LoadPending => ~lastError)
    /\ [][/\ LoadResolves("districts")
                => /\ curDistricts' = Len(districtLayers')
                   /\ curDistricts' \notin onMap
                   /\ curDistricts' \in onMap'
                   /\ districtLayers'[curDistricts'] = [r \in Regions |-> DefaultStyle]
                   /\ UNCHANGED <<transport, transportOnMap, state, panel, statsById,
                                  viewport, hovered>>
          /\ LoadResolves("transport")
                => /\ transport' # transport
                   /\ UNCHANGED <<districtLayers, onMap, curDistricts, transportOnMap,
                                  state, panel, statsById, viewport, hovered>>
          /\ LoadResolves("stats")
                => /\ statsById'.t = "obj"
                   /\ UNCHANGED <<districtLayers, onMap, curDistricts, transport,
                                  transportOnMap, state, panel, viewport, hovered>>]_vars

-----------------------------------------------------------------------------
(* Claims about the independence of overlay and hover, checked under         *)
(* SpecEvents                                                               *)

(***************************************************************************)
(* C29. The overlay flag is orthogonal to hover and selection: no          *)
(* pointerEnter, pointerLeave or click changes                             *)
(* state.isTransportationVisible or which overlay layer is on the map, and *)
(* toggleTransportation changes neither the selected region nor the        *)
(* panel's open/closed state nor its content.                              *)
(***************************************************************************)
C29_OverlayOrthogonal ==
    [][/\ (\E f \in Features :
              HighlightDistrict(f) \/ ResetDistrictHighlight(f) \/ ZoomToDistrict(f))
          => /\ state'.isTransportationVisible = state.isTransportationVisible
             /\ transportOnMap' = transportOnMap
       /\ ToggleTransportation
          => /\ state'.currentDistrict = state.currentDistrict
             /\ panel' = panel]_vars

\* The overlay was toggled on and a region hovered, in either order: the
\* overlay is shown, the panel is open with the region's entry
C29_Witness ==
    /\ state.isTransportationVisible
    /\ transportOnMap # {}
    /\ hovered # {}
    /\ panel.visible
    /\ panel.shown # EmptyState

-----------------------------------------------------------------------------
(* Claims about the columns of the sheet, checked under SpecTransform       *)

\* The table with its columns in reverse order, header and rows alike; a row
\* is padded with empty cells to the header's length first
ReverseColumns(values) ==
    [i \in 1..Len(values) |->
        [k \in 1..Len(values[1]) |->
            OrEmpty(At(values[i], Len(values[1]) - k))]]

\* The table reduced to its name, coordinate and category columns
RequiredColumns(values) ==
    [i \in 1..Len(values) |->
        IF i = 1 THEN <<SName, SKoordinaten, SWerbetraeger>>
        ELSE <<CellOf(values, i - 1, SName), CellOf(values, i - 1, SKoordinaten),
               CellOf(values, i - 1, SWerbetraeger)>>]

\* The accepted rows of a result: category, place within it, name, coordinates
LocationsOf(out) ==
    IF out.t # "obj" THEN {<<"raised">>}
    ELSE {<<out.o[k].key, j, out.o[k].features[j].Name,
            out.o[k].features[j].coordinates>> :
            <<k, j>> \in {p \in (1..Len(out.o)) \X (1..MaxRows + 1) :
                            p[2] <= Len(out.o[p[1]].features)}}

(***************************************************************************)
(* C30. Columns are located by header name only: permuting the columns of  *)
(* a table, or omitting the columns that are neither name, coordinates nor *)
(* category, changes neither which rows processSheetData accepts nor the   *)
(* name, category and coordinates of the locations.                        *)
(***************************************************************************)
C30_ColumnsByName ==
    (tOut # NotRun /\ tValues # <<>>)
        => /\ LocationsOf(ProcessSheetData(ReverseColumns(tValues))) = LocationsOf(tOut)
           /\ LocationsOf(ProcessSheetData(RequiredColumns(tValues))) = LocationsOf(tOut)

-----------------------------------------------------------------------------
\* C34: in every reachable state the transportation layer the controller
\* holds is on the map exactly when state.isTransportationVisible is true,
\* and no other transportation layer is on the map, also after
\* loadTransportationRoutes ran again while the overlay was visible.
C34_OverlayDisplayed ==
    transportOnMap = IF state.isTransportationVisible THEN {transport} ELSE {}

-----------------------------------------------------------------------------
\* C32: two fetchAndProcess calls that found the cache invalid and ran to
\* completion with a usable key each issued a request of their own (the
\* requests are counted one per call, none is shared), and once both have
\* completed the cache holds the data and the timestamp written by the call
\* whose retrieval completed last, which is also what that call returned.
Retrieved(c) == calls[c].pc = "done" /\ ~calls[c].hit
C32_LastWriterWins ==
    /\ netCalls = Cardinality({c \in CallIds : calls[c].usedNet})
    /\ \A c, d \in CallIds :
         (c # d /\ Retrieved(c) /\ Retrieved(d) /\ HasSheetsUrl)
         => /\ calls[c].usedNet /\ calls[d].usedNet
            /\ lastOk.set
               => /\ cache = [data |-> lastOk.data, timestamp |-> JInt(lastOk.at)]
                  /\ calls[lastOk.by].result = lastOk.data
\* Call 2 started after call 1 and completed before it, with another sheet:
\* the calls overlapped and the entry is call 1's
C32_Witness ==
    /\ Retrieved(1) /\ Retrieved(2)
    /\ calls[1].result = ProcessedSheet[SheetA]
    /\ calls[2].result = ProcessedSheet[SheetB]
    /\ lastOk.set /\ lastOk.by = 1 /\ lastOk.at > 0
    /\ calls[1].age = -1 /\ calls[2].age = -1 /\ cleared = {}
    /\ cache.data = ProcessedSheet[SheetA]

-----------------------------------------------------------------------------
\* C33: every value a fetchAndProcess(sheetId, range) call returns was
\* produced by a retrieval for that same (sheetId, range): a call for one
\* dataset never returns the entry written for the other.
C33_PerKeyCache ==
    \A c \in CallIds :
        (calls[c].pc = "done" /\ calls[c].result.t # "error")
        => calls[c].result = ProcessedSheet[SheetOf[args[c]]]

-----------------------------------------------------------------------------
\* What a panel is to show for region id from the index `index`
LookupIn(index, id) ==
    IF index = JNull \/ id = 0 \/ RegionKey(id) \notin DOMAIN index.o
    THEN EmptyState
    ELSE UpdateContent(index.o[RegionKey(id)])

\* C31: with two InteractiveMap instances alive, the panel of the second map
\* shows for every region the lookup in the index that map's own
\* loadDistrictStats built (the empty state before it loaded any), whatever
\* the first map loaded in between.
C31_OwnIndexOnly ==
    peer.region # 0 => peer.shown = LookupIn(peer.loaded, peer.region)

-----------------------------------------------------------------------------
\* C35: EnvLoader.load never rejects and leaves loaded = true whenever it
\* has settled, whether its sources answered or failed; a load invoked after
\* another load settled has settled at once, issued no request and returned
\* the variables the load that settled last had returned.
C35_LoadOnce ==
    \A l \in LoadIds :
        /\ loads[l].result.t \in {"none", "obj"}
        /\ loads[l].pc = "done" => (envLoader.loaded /\ loads[l].result.t = "obj")
        /\ (loads[l].pc # "idle" /\ loads[l].late)
           => /\ loads[l].pc = "done"
              /\ loads[l].reqs = 0
              /\ loads[l].result = loads[l].expected
\* The first load found no source (both requests failed) and a later load
\* returned the defaults without asking again
C35_Witness ==
    /\ envSource = [variant |-> "netlify", config |-> JNull]
    /\ loads[1].pc = "done" /\ loads[1].reqs = 2 /\ loads[1].result = NoVariables
    /\ loads[2].pc = "done" /\ loads[2].late /\ loads[2].reqs = 0
    /\ loads[2].result = NoVariables

-----------------------------------------------------------------------------
\* s contains sub as a contiguous part
Contains(s, sub) ==
    \E i \in 0..(Len(s) - Len(sub)) : SubSeq(s, i + 1, i + Len(sub)) = sub
KeyIsSet(env) == SApiKeyChars \in DOMAIN env /\ env[SApiKeyChars] # <<>>
SameKey(env1, env2) == EnvValue(env1, SApiKeyChars) = EnvValue(env2, SApiKeyChars)

\* C36: the response of the config function depends only on the HTTP method
\* and on GOOGLE_SHEETS_API_KEY. A request that is not a GET gets status 405
\* and a body without the key; a GET gets status 200 and a body that holds
\* GOOGLE_SHEETS_API_KEY, with its value as a JSON string, exactly when the
\* variable is set and not empty; no name or value of another variable is in
\* the body, and two environments that differ only in other variables get
\* the same response.
C36_OnlyTheKey ==
    tOut # NotRun
    => LET env == tValues.env
           others == DOMAIN env \ {SApiKeyChars}
       IN  /\ tValues.method # "GET"
              => /\ tOut.statusCode = 405
                 /\ ~Contains(tOut.body, SApiKeyChars)
                 /\ KeyIsSet(env) => ~Contains(tOut.body, env[SApiKeyChars])
           /\ tValues.method = "GET"
              => /\ tOut.statusCode = 200
                 /\ Contains(tOut.body, SApiKeyChars) <=> KeyIsSet(env)
                 /\ KeyIsSet(env)
                    => tOut.body = <<"{">> \o Quoted(SApiKeyChars) \o <<":">>
                                   \o Quoted(env[SApiKeyChars]) \o <<"}">>
                 /\ ~KeyIsSet(env) => tOut.body = <<"{", "}">>
           /\ \A n \in others :
                ~Contains(tOut.body, n) /\ ~Contains(tOut.body, env[n])
           /\ \A env2 \in Environments :
                SameKey(env, env2) => Handler(tValues.method, env2) = tOut
\* A GET served from an environment that holds the key, with a quote in it,
\* next to other variables
C36_Witness ==
    /\ tOut # NotRun
    /\ tValues.method = "GET"
    /\ KeyIsSet(tValues.env)
    /\ Contains(tValues.env[SApiKeyChars], <<"\"">>)
    /\ SSecret \in DOMAIN tValues.env
    /\ Contains(tOut.body, <<"a", "\\", "\"", "b">>)

-----------------------------------------------------------------------------
\* The number of invocations of callback cb recorded in log
Invocations(log, cb) == Cardinality({i \in 1..Len(log) : log[i] = cb})

\* C37: once createCityMap has settled, resolved or rejected, a
\* hideLoadingCallback it was given has been invoked exactly once, and after
\* every invocation of showLoadingCallback.
C37_HideOnce ==
    (factory.pc = "done" /\ factory.options.hide)
    => /\ Invocations(factory.log, "hide") = 1
       /\ factory.log[Len(factory.log)] = "hide"

-----------------------------------------------------------------------------
\* C38: after any sequence of wheel events, once no further wheel event
\* arrives the instruction element eventually stays hidden with its original
\* instruction text.
C38_HintRestored ==
    <>[](zoomUi.opacity # "1" /\ zoomUi.text = SInstruction)

-----------------------------------------------------------------------------
\* The calls that end a burst: the last call so far and every call followed
\* by the next one wait or more later
BurstEnds == {i \in 1..Len(debounced.calls) :
                \/ i = Len(debounced.calls)
                \/ debounced.calls[i + 1].at - debounced.calls[i].at >= debounced.wait}
\* Those whose invocation is due at time t or before
DueBy(t) == {i \in BurstEnds : debounced.calls[i].at + debounced.wait <= t}
\* func is invoked for the ends of the bursts and for nothing else, in order,
\* once each, wait after that call and with its arguments
InvokedPerBurst ==
    /\ Len(debounced.invoked) >= Cardinality(DueBy(debounced.now - 1))
    /\ Len(debounced.invoked) <= Cardinality(DueBy(debounced.now))
    /\ \A k \in 1..Len(debounced.invoked) :
         \E i \in DueBy(debounced.now) :
            /\ k = Cardinality({j \in DueBy(debounced.now) : j <= i})
            /\ debounced.invoked[k] = [at |-> debounced.calls[i].at + debounced.wait,
                                       args |-> debounced.calls[i].args]

=============================================================================
